---- MODULE Spec2Model ----
(***************************************************************************)
(* Model of the Time field of package meta (src/time.go): option parsing,  *)
(* blank handling, format/expression parsing, rounding and range checks.   *)
(*                                                                         *)
(* An instant is a record [day, sec, nsec]: whole days since 0001-01-01    *)
(* (the zero time.Time), the second of that day and the nanosecond of that *)
(* second, all in UTC.  The split keeps every number inside TLC's integers *)
(* while keeping nanosecond resolution, which the 250 ms tolerance needs.  *)
(***************************************************************************)
EXTENDS Integers, Sequences, FiniteSets, TLC

\* ------------------------------------------------------------------ time
\* What the code uses of the standard library's time.Time, on instants in UTC.

Inst(d, s, n) == [day |-> d, sec |-> s, nsec |-> n]

ZeroInstant == Inst(0, 0, 0)

IsZero(x) == x = ZeroInstant

Before(a, b) ==
    \/ a.day < b.day
    \/ a.day = b.day /\ a.sec < b.sec
    \/ a.day = b.day /\ a.sec = b.sec /\ a.nsec < b.nsec

After(a, b) == Before(b, a)

Equal(a, b) == a = b

\* Carries nanoseconds into seconds and seconds into days.
Normalize(d, s, n) ==
    LET s1 == s + (n \div 1000000000)
    IN  Inst(d + (s1 \div 86400), s1 % 86400, n % 1000000000)

\* t.Add(d) for a duration of ns nanoseconds with |ns| < 2^31.
AddNs(x, ns) == Normalize(x.day, x.sec, x.nsec + ns)

\* t.Add(d) for a duration of whole seconds.
AddSec(x, s) == Normalize(x.day, x.sec + s, x.nsec)

\* Day number of the civil date y-m-d of the proleptic Gregorian calendar,
\* for m in 1..12 and any d (a day outside the month runs into the next).
DaysFromCivil(y, m, d) ==
    LET yy  == IF m <= 2 THEN y - 1 ELSE y
        era == yy \div 400
        yoe == yy - era * 400
        mp  == IF m > 2 THEN m - 3 ELSE m + 9
        doy == ((153 * mp + 2) \div 5) + d - 1
        doe == yoe * 365 + (yoe \div 4) - (yoe \div 100) + doy
    IN  era * 146097 + doe - 306

\* The civil date of a day number.
\* from its 400-year era, year of the era and day of the (March-based) year,
CivilOfYear(era, yoe, doy) ==
    LET mp == (5 * doy + 2) \div 153
        m  == IF mp < 10 THEN mp + 3 ELSE mp - 9
    IN  [year  |-> yoe + era * 400 + (IF m <= 2 THEN 1 ELSE 0),
         month |-> m,
         day   |-> doy - ((153 * mp + 2) \div 5) + 1]

\* from its era and day of the era,
CivilOfEra(era, doe, yoe) ==
    CivilOfYear(era, yoe, doe - (365 * yoe + (yoe \div 4) - (yoe \div 100)))

\* and from the day number alone.
CivilFromDays(z0) ==
    LET era == (z0 + 306) \div 146097
        doe == z0 + 306 - era * 146097
    IN  CivilOfEra(era, doe,
                   (doe - (doe \div 1460) + (doe \div 36524) - (doe \div 146096)) \div 365)

Year(x)   == CivilFromDays(x.day).year
Month(x)  == CivilFromDays(x.day).month
Day(x)    == CivilFromDays(x.day).day
Hour(x)   == x.sec \div 3600
Minute(x) == (x.sec % 3600) \div 60
Second(x) == x.sec % 60
Nanosecond(x) == x.nsec

\* time.Weekday: Sunday = 0 ... Saturday = 6 (0001-01-01 is a Monday).
Weekday(x) == (x.day + 1) % 7

\* time.Date: out-of-range months, days, hours, minutes, seconds and
\* nanoseconds are normalised into the following (or preceding) period.
Date(y, mo, d, h, mi, s, n) ==
    LET m0 == mo - 1
        y1 == y + (m0 \div 12)
        m1 == (m0 % 12) + 1
        n1 == n % 1000000000
        s0 == s + (n \div 1000000000)
        s1 == s0 % 60
        i0 == mi + (s0 \div 60)
        i1 == i0 % 60
        h0 == h + (i0 \div 60)
        h1 == h0 % 24
        d1 == d + (h0 \div 24)
    IN  Inst(DaysFromCivil(y1, m1, d1), h1 * 3600 + i1 * 60 + s1, n1)

\* t.AddDate(years, months, days).
AddDate(x, years, months, days) ==
    LET c == CivilFromDays(x.day)
    IN  Date(c.year + years, c.month + months, c.day + days,
             Hour(x), Minute(x), Second(x), Nanosecond(x))

DaysIn(y, m) == DaysFromCivil(IF m = 12 THEN y + 1 ELSE y, IF m = 12 THEN 1 ELSE m + 1, 1)
                - DaysFromCivil(y, m, 1)

\* Midpoint down.Add(up.Sub(down) / 2) of two instants down <= up less than
\* 292 years apart (beyond that Sub saturates); the halving truncates.
Midpoint(down, up) ==
    LET n0 == up.nsec - down.nsec
        s0 == up.sec - down.sec - (IF n0 < 0 THEN 1 ELSE 0)
        dn == IF n0 < 0 THEN n0 + 1000000000 ELSE n0
        dd == up.day - down.day - (IF s0 < 0 THEN 1 ELSE 0)
        ds == IF s0 < 0 THEN s0 + 86400 ELSE s0
        hs == (dd % 2) * 86400 + ds
        hn == ((hs % 2) * 1000000000 + dn) \div 2
    IN  Normalize(down.day + (dd \div 2), down.sec + (hs \div 2), down.nsec + hn)

\* ------------------------------------------------------------ constants

Nil == [nil |-> TRUE]

\* time.go:95, in nanoseconds.
TimeComparisonTolerance == 250000000

ErrBlank == "ErrBlank"
ErrTime  == "ErrTime"
ErrMin   == "ErrMin"
ErrMax   == "ErrMax"
NoErr    == "nil"

UnitYear   == "year"
UnitMonth  == "month"
UnitWeek   == "week"
UnitDay    == "day"
UnitHour   == "hour"
UnitMinute == "minute"
UnitSecond == "second"

DirectionUp      == "up"
DirectionDown    == "down"
DirectionNearest == "nearest"

StandardUnits == {UnitYear, UnitMonth, UnitDay, UnitHour, UnitMinute, UnitSecond}

\* The layouts of the standard library that the model's texts can be in.
RFC3339  == "2006-01-02T15:04:05Z07:00"
DateOnly == "2006-01-02"
DateTime == "2006-01-02 15:04:05"

timeFormatMap ==
    [RFC3339 |-> RFC3339, DateOnly |-> DateOnly, DateTime |-> DateTime]

dayNameToWeekday ==
    [sunday |-> 0, monday |-> 1, tuesday |-> 2, wednesday |-> 3,
     thursday |-> 4, friday |-> 5, saturday |-> 6,
     sun |-> 0, mon |-> 1, tue |-> 2, wed |-> 3, thu |-> 4, fri |-> 5, sat |-> 6]

dayNames ==
    <<"sunday", "monday", "tuesday", "wednesday", "thursday", "friday", "saturday">>

validUnits == {UnitYear, UnitMonth, UnitWeek, UnitDay, UnitHour, UnitMinute, UnitSecond}

validDirections == {DirectionUp, DirectionDown, DirectionNearest}

\* Seconds in one unit of timeUnitDuration; "nanosecond" is handled apart.
timeUnitDuration == [hour |-> 3600, minute |-> 60, second |-> 1]

\* ----------------------------------------------------------------- texts
\* A text is a record whose "shape" says which syntax the string is in:
\*   "empty"     the empty string
\*   "datetime"  YYYY-MM-DDTHH:MM:SS[.fraction]Z with the fields as written
\*   "date3"     dddd-dd-dd with its three numbers a, b, c as written
\*   "relative"  <n>_<unit>[s]_<ago|from_now>
\*   "absolute"  now | today | yesterday | tomorrow
\*   "other"     anything else ("wat")

EmptyText == [shape |-> "empty"]
OtherText == [shape |-> "other"]
DateTimeText(y, mo, d, h, mi, s, n) ==
    [shape |-> "datetime", y |-> y, mo |-> mo, d |-> d, h |-> h, mi |-> mi, s |-> s, n |-> n]
Date3Text(a, b, c) == [shape |-> "date3", a |-> a, b |-> b, c |-> c]
RelativeText(n, unit, dir) == [shape |-> "relative", n |-> n, unit |-> unit, dir |-> dir]
AbsoluteText(word) == [shape |-> "absolute", word |-> word]

\* A relative expression whose count is written out in decimal digits, most
\* significant first; RelativeText gives the count as a number, which stands
\* for its digits and is used for counts of at most 2,562,047 (the number of
\* hours whose product with time.Hour is within the range of a Duration).
RelativeDigitsText(digits, unit, dir) ==
    [shape |-> "relative", digits |-> digits, unit |-> unit, dir |-> dir]

\* ----------------------------------------------------- 64-bit arithmetic
\* A 64-bit integer is the sequence of its 8 bytes, least significant first,
\* in two's complement: int and time.Duration multiply modulo 2^64.

\* x * k + carry for a factor k below 2^15, cut to the bytes of x.
RECURSIVE MulFrom(_, _, _, _)
MulFrom(x, k, i, carry) ==
    IF i > Len(x) THEN <<>>
    ELSE <<(x[i] * k + carry) % 256>> \o MulFrom(x, k, i + 1, (x[i] * k + carry) \div 256)

MulSmall(x, k) == MulFrom(x, k, 1, 0)

AddSmall(x, d) == MulFrom(x, 1, 1, d)

\* Quotient and remainder of x by a divisor k below 2^15, from byte i down.
DivStep(rest, digit) == [q |-> rest.q \o <<digit>>, r |-> rest.r]

RECURSIVE DivFrom(_, _, _, _)
DivFrom(x, k, i, rem) ==
    IF i = 0 THEN [q |-> <<>>, r |-> rem]
    ELSE DivStep(DivFrom(x, k, i - 1, (rem * 256 + x[i]) % k), (rem * 256 + x[i]) \div k)

DivSmall(x, k) == DivFrom(x, k, Len(x), 0)

Int64Zero == <<0, 0, 0, 0, 0, 0, 0, 0>>

Int64Negative(x) == x[8] >= 128

\* -x modulo 2^64.
Int64Negate(x) == AddSmall([i \in 1..8 |-> 255 - x[i]], 1)

\* The product of x with the factors of fs, modulo 2^64.
RECURSIVE Int64Product(_, _, _)
Int64Product(x, fs, i) ==
    IF i > Len(fs) THEN x ELSE Int64Product(MulSmall(x, fs[i]), fs, i + 1)

\* strconv.Atoi on a 64-bit platform, the value held in 9 bytes while the
\* digits are read: Nil (a range error) once it passes 2^63 - 1.
RECURSIVE AtoiFrom(_, _, _)
AtoiFrom(digits, i, acc) ==
    IF acc[9] > 0 \/ acc[8] >= 128 THEN Nil
    ELSE IF i > Len(digits) THEN SubSeq(acc, 1, 8)
    ELSE AtoiFrom(digits, i + 1, AddSmall(MulSmall(acc, 10), digits[i]))

Atoi(digits) == AtoiFrom(digits, 1, <<0, 0, 0, 0, 0, 0, 0, 0, 0>>)

\* timeUnitDuration in nanoseconds, as factors below 2^15.
timeUnitDurationFactors ==
    [hour |-> <<3600, 1000, 1000, 1000>>, minute |-> <<60, 1000, 1000, 1000>>,
     second |-> <<1000, 1000, 1000>>, nanosecond |-> <<>>]

\* t.Add(d) for a Duration d of either sign: the magnitude of d is split
\* into days, seconds and nanoseconds, s1 and s2 being the seconds divided
\* by 100 and that quotient by 864.
AddSplit(x, sign, n1, n2, n3, s1, s2) ==
    Normalize(x.day + sign * (s2.q[1] + 256 * s2.q[2] + 65536 * s2.q[3]),
              x.sec + sign * (s2.r * 100 + s1.r),
              x.nsec + sign * (n1.r + 1000 * n2.r + 1000000 * n3.r))

AddSeconds(x, sign, n1, n2, n3, s1) ==
    AddSplit(x, sign, n1, n2, n3, s1, DivSmall(s1.q, 864))

AddThousands(x, sign, n1, n2, n3) ==
    AddSeconds(x, sign, n1, n2, n3, DivSmall(n3.q, 100))

AddMillions(x, sign, n1, n2) == AddThousands(x, sign, n1, n2, DivSmall(n2.q, 1000))

AddMagnitude(x, sign, n1) == AddMillions(x, sign, n1, DivSmall(n1.q, 1000))

AddDuration(x, d) ==
    IF Int64Negative(d) THEN AddMagnitude(x, -1, DivSmall(Int64Negate(d), 1000))
    ELSE AddMagnitude(x, 1, DivSmall(d, 1000))

\* ------------------------------------------------------ expression parsing

\* relativeTimeRegex / absoluteTimeRegex: the text is in the vocabulary.
MatchesExpression(value) == value.shape \in {"relative", "absolute"}

\* Mutant: "ago" is not negated.
parseRelativeTimeExpression_AgoAdds(m, now) ==
    CASE m.unit = UnitYear  -> AddDate(now, m.n, 0, 0)
      [] m.unit = UnitMonth -> AddDate(now, 0, m.n, 0)
      [] m.unit = UnitWeek  -> AddDate(now, 0, 0, m.n * 7)
      [] m.unit = UnitDay   -> AddDate(now, 0, 0, m.n)
      [] m.unit \in DOMAIN timeUnitDuration ->
             AddSec(now, m.n * timeUnitDuration[m.unit])
      [] m.unit = "nanosecond" -> AddNs(now, m.n)
      [] OTHER -> Nil

\* The duration branch for a count delta:
\* time.Now().Add(time.Duration(delta) * duration), with -time.Duration(delta)
\* for "ago".
AddWrapped(m, now, delta) ==
    AddDuration(now,
                Int64Product(IF m.dir = "ago" THEN Int64Negate(delta) ELSE delta,
                             timeUnitDurationFactors[m.unit], 1))

\* parseRelativeTimeExpression for a count written in digits and one of the
\* units of timeUnitDuration: no resolution when strconv.Atoi fails.
parseRelativeDigits(m, now) ==
    IF Atoi(m.digits) = Nil THEN Nil ELSE AddWrapped(m, now, Atoi(m.digits))

\* The instant the expression resolves to when time.Now() returns now.
parseRelativeTimeExpression(m, now) ==
    LET sign == IF m.dir = "ago" THEN -1 ELSE 1
    IN  CASE "digits" \in DOMAIN m -> parseRelativeDigits(m, now)
          [] m.unit = UnitYear  -> AddDate(now, sign * m.n, 0, 0)
          [] m.unit = UnitMonth -> AddDate(now, 0, sign * m.n, 0)
          [] m.unit = UnitWeek  -> AddDate(now, 0, 0, sign * m.n * 7)
          [] m.unit = UnitDay   -> AddDate(now, 0, 0, sign * m.n)
          [] m.unit \in DOMAIN timeUnitDuration ->
                 AddSec(now, sign * m.n * timeUnitDuration[m.unit])
          [] m.unit = "nanosecond" -> AddNs(now, sign * m.n)
          [] OTHER -> Nil

parseAbsoluteTimeExpression(m, now) ==
    LET today == Date(Year(now), Month(now), Day(now), 0, 0, 0, 0)
    IN  CASE m.word = "now"       -> now
          [] m.word = "today"     -> today
          [] m.word = "yesterday" -> AddDate(today, 0, 0, -1)
          [] m.word = "tomorrow"  -> AddDate(today, 0, 0, 1)
          [] OTHER -> Nil

\* resolveTimeExpression with the clock reading now; Nil is "no resolution".
resolveTimeExpression(value, now) ==
    CASE value.shape = "relative" -> parseRelativeTimeExpression(value, now)
      [] value.shape = "absolute" -> parseAbsoluteTimeExpression(value, now)
      [] OTHER -> Nil

\* ---------------------------------------------------------- layout parsing

ValidDate(y, mo, d) == mo \in 1..12 /\ d >= 1 /\ d <= DaysIn(y, mo)

\* time.Parse(layout, value) for the layouts the model's texts can be in:
\* the instant, or Nil for a parse error.  A fraction after the seconds is
\* accepted although the layout names none, as time.Parse does.
ParseLayout(layout, value) ==
    CASE layout = RFC3339 /\ value.shape = "datetime" ->
            IF /\ ValidDate(value.y, value.mo, value.d)
               /\ value.h \in 0..23 /\ value.mi \in 0..59 /\ value.s \in 0..59
               /\ value.n \in 0..999999999
            THEN Date(value.y, value.mo, value.d, value.h, value.mi, value.s, value.n)
            ELSE Nil
      [] layout = DateOnly /\ value.shape = "date3" ->
            IF ValidDate(value.a, value.b, value.c)
            THEN Date(value.a, value.b, value.c, 0, 0, 0, 0) ELSE Nil
      [] layout = "2006-02-01" /\ value.shape = "date3" ->
            IF ValidDate(value.a, value.c, value.b)
            THEN Date(value.a, value.c, value.b, 0, 0, 0, 0) ELSE Nil
      [] OTHER -> Nil

\* parseFormats: the tag is the list of its comma-separated names.
parseFormats(formatTag) ==
    IF formatTag = <<>> THEN <<RFC3339, "expression">>
    ELSE [i \in 1..Len(formatTag) |->
             IF formatTag[i] \in DOMAIN timeFormatMap
             THEN timeFormatMap[formatTag[i]] ELSE formatTag[i]]

\* ---------------------------------------------------------------- rounding

getTimeComponents(val) ==
    [year |-> Year(val), month |-> Month(val), day |-> Day(val), hour |-> Hour(val),
     minute |-> Minute(val), second |-> Second(val), nanosecond |-> Nanosecond(val)]

createTimeFromComponents(comp) ==
    Date(comp.year, comp.month, comp.day, comp.hour, comp.minute, comp.second,
         comp.nanosecond)

\* unitRoundingMap[unit].upFunc
upFunc(unit, comp) ==
    CASE unit = UnitYear   -> [comp EXCEPT !.year = @ + 1]
      [] unit = UnitMonth  ->
            LET nextMonth == AddDate(Date(comp.year, comp.month, 1, 0, 0, 0, 0), 0, 1, 0)
            IN  [comp EXCEPT !.day = 1, !.hour = 0, !.minute = 0, !.second = 0,
                             !.nanosecond = 0,
                             !.year = Year(nextMonth), !.month = Month(nextMonth)]
      [] unit = UnitDay    -> [comp EXCEPT !.day = @ + 1]
      [] unit = UnitHour   -> [comp EXCEPT !.hour = @ + 1]
      [] unit = UnitMinute -> [comp EXCEPT !.minute = @ + 1]
      [] unit = UnitSecond -> [comp EXCEPT !.second = @ + 1]

\* Mutant: the zeroing for month leaves the day of the month alone.
zeroFunc_MonthKeepsDay(unit, comp) ==
    CASE unit = UnitYear   -> [comp EXCEPT !.month = 1, !.day = 1, !.hour = 0, !.minute = 0,
                                           !.second = 0, !.nanosecond = 0]
      [] unit = UnitMonth  -> [comp EXCEPT !.hour = 0, !.minute = 0,
                                           !.second = 0, !.nanosecond = 0]
      [] unit = UnitDay    -> [comp EXCEPT !.hour = 0, !.minute = 0, !.second = 0,
                                           !.nanosecond = 0]
      [] unit = UnitHour   -> [comp EXCEPT !.minute = 0, !.second = 0, !.nanosecond = 0]
      [] unit = UnitMinute -> [comp EXCEPT !.second = 0, !.nanosecond = 0]
      [] unit = UnitSecond -> [comp EXCEPT !.nanosecond = 0]

\* unitRoundingMap[unit].zeroFunc
zeroFunc(unit, comp) ==
    CASE unit = UnitYear   -> [comp EXCEPT !.month = 1, !.day = 1, !.hour = 0, !.minute = 0,
                                           !.second = 0, !.nanosecond = 0]
      [] unit = UnitMonth  -> [comp EXCEPT !.day = 1, !.hour = 0, !.minute = 0,
                                           !.second = 0, !.nanosecond = 0]
      [] unit = UnitDay    -> [comp EXCEPT !.hour = 0, !.minute = 0, !.second = 0,
                                           !.nanosecond = 0]
      [] unit = UnitHour   -> [comp EXCEPT !.minute = 0, !.second = 0, !.nanosecond = 0]
      [] unit = UnitMinute -> [comp EXCEPT !.second = 0, !.nanosecond = 0]
      [] unit = UnitSecond -> [comp EXCEPT !.nanosecond = 0]

roundDownToWeekday(val, targetDay) ==
    LET d0 == Weekday(val) - targetDay
        daysSinceStart == IF d0 < 0 THEN d0 + 7 ELSE d0
    IN  Date(Year(val), Month(val), Day(val) - daysSinceStart, 0, 0, 0, 0)

isAtDayNameBoundary(val, unit) ==
    /\ unit \in DOMAIN dayNameToWeekday
    /\ Equal(val, roundDownToWeekday(val, dayNameToWeekday[unit]))

\* Mutant: no instant counts as being at a boundary.
isAtBoundary_Never(val, unit) == FALSE

\* boundaryChecks, falling back to the day-name check.
isAtBoundary(val, unit) ==
    CASE unit = UnitYear   -> Month(val) = 1 /\ Day(val) = 1 /\ val.sec = 0 /\ val.nsec = 0
      [] unit = UnitMonth  -> Day(val) = 1 /\ val.sec = 0 /\ val.nsec = 0
      [] unit = UnitDay    -> val.sec = 0 /\ val.nsec = 0
      [] unit = UnitHour   -> Minute(val) = 0 /\ Second(val) = 0 /\ val.nsec = 0
      [] unit = UnitMinute -> Second(val) = 0 /\ val.nsec = 0
      [] unit = UnitSecond -> val.nsec = 0
      [] OTHER -> isAtDayNameBoundary(val, unit)

roundStandardUnit(val, unit, direction) ==
    LET comp == getTimeComponents(val)
        up   == IF direction = DirectionUp /\ ~isAtBoundary(val, unit)
                THEN upFunc(unit, comp) ELSE comp
    IN  zeroFunc(unit, up)

roundComponents(val, unit, direction) ==
    IF unit \in StandardUnits THEN roundStandardUnit(val, unit, direction)
    ELSE getTimeComponents(val)

roundStandardDown(val, unit) ==
    createTimeFromComponents(roundComponents(val, unit, DirectionDown))

\* Mutant: the instant is advanced by one unit and its finer components are
\* kept.
roundStandardUp_KeepsFiner(val, unit) ==
    IF isAtBoundary(val, unit) THEN val
    ELSE createTimeFromComponents(upFunc(unit, getTimeComponents(val)))

roundStandardUp(val, unit) ==
    IF isAtBoundary(val, unit) THEN val
    ELSE createTimeFromComponents(roundComponents(val, unit, DirectionUp))

roundDayNameDown(val, unit) ==
    IF unit \in DOMAIN dayNameToWeekday
    THEN roundDownToWeekday(val, dayNameToWeekday[unit]) ELSE val

\* Mutant: the next occurrence of the weekday is taken also from an instant
\* that is exactly at one.
roundDayNameUp_NextWeek(val, unit) ==
    IF unit \in DOMAIN dayNameToWeekday
    THEN AddDate(roundDownToWeekday(val, dayNameToWeekday[unit]), 0, 0, 7)
    ELSE val

roundDayNameUp(val, unit) ==
    IF unit \in DOMAIN dayNameToWeekday
    THEN LET down == roundDownToWeekday(val, dayNameToWeekday[unit])
         IN  IF Equal(val, down) THEN down ELSE AddDate(down, 0, 0, 7)
    ELSE val

roundDown(val, unit) ==
    CASE unit \in StandardUnits -> roundStandardDown(val, unit)
      [] unit = UnitWeek        -> roundDownToWeekday(val, 1)
      [] OTHER                  -> roundDayNameDown(val, unit)

roundUp(val, unit) ==
    CASE unit \in StandardUnits -> roundStandardUp(val, unit)
      [] unit = UnitWeek        -> AddDate(roundDownToWeekday(val, 1), 0, 0, 7)
      [] OTHER                  -> roundDayNameUp(val, unit)

\* Mutant: an instant exactly at the midpoint goes up.
Nearer_TieUp(val, down, up) ==
    LET midpoint == Midpoint(down, up)
    IN  IF Equal(down, up) THEN down
        ELSE IF Before(val, midpoint) THEN down ELSE up

\* The choice roundNearest makes between down and up.
Nearer(val, down, up) ==
    LET midpoint == Midpoint(down, up)
    IN  IF Equal(down, up) THEN down
        ELSE IF Before(val, midpoint) \/ Equal(val, midpoint) THEN down ELSE up

roundNearest(val, unit) == Nearer(val, roundDown(val, unit), roundUp(val, unit))

\* applyRounding: the new t.Val.
applyRounding(val, opts) ==
    IF opts.Round = Nil THEN val
    ELSE CASE opts.Round.direction = DirectionDown    -> roundDown(val, opts.Round.unit)
           [] opts.Round.direction = DirectionUp      -> roundUp(val, opts.Round.unit)
           [] opts.Round.direction = DirectionNearest -> roundNearest(val, opts.Round.unit)
           [] OTHER -> val

normalizeDayName(dayName) ==
    IF dayName \in DOMAIN dayNameToWeekday
    THEN dayNames[dayNameToWeekday[dayName] + 1] ELSE ""

\* Mutant: an unrecognised unit falls back to rounding by day.
parseRoundConfig_DefaultDay(roundTag) ==
    LET unitStr   == roundTag[1]
        direction == IF Len(roundTag) > 1 /\ roundTag[2] \in validDirections
                     THEN roundTag[2] ELSE DirectionDown
    IN  IF normalizeDayName(unitStr) # ""
        THEN [unit |-> normalizeDayName(unitStr), direction |-> direction]
        ELSE IF unitStr \in validUnits
             THEN [unit |-> unitStr, direction |-> direction]
             ELSE [unit |-> UnitDay, direction |-> direction]

\* Mutant: a tag without a valid direction part rounds up.
parseRoundConfig_DefaultUp(roundTag) ==
    LET unitStr   == roundTag[1]
        direction == IF Len(roundTag) > 1 /\ roundTag[2] \in validDirections
                     THEN roundTag[2] ELSE DirectionUp
    IN  IF normalizeDayName(unitStr) # ""
        THEN [unit |-> normalizeDayName(unitStr), direction |-> direction]
        ELSE IF unitStr \in validUnits
             THEN [unit |-> unitStr, direction |-> direction]
             ELSE Nil

\* parseRoundConfig: the tag is the list of its ":"-separated, lower-cased,
\* trimmed parts.
parseRoundConfig(roundTag) ==
    LET unitStr   == roundTag[1]
        direction == IF Len(roundTag) > 1 /\ roundTag[2] \in validDirections
                     THEN roundTag[2] ELSE DirectionDown
    IN  IF normalizeDayName(unitStr) # ""
        THEN [unit |-> normalizeDayName(unitStr), direction |-> direction]
        ELSE IF unitStr \in validUnits
             THEN [unit |-> unitStr, direction |-> direction]
             ELSE Nil

\* ---------------------------------------------------------- range checking
\* A Time is [Val, Null, Present]; options are [Required, DiscardBlank, Null,
\* Format, MinDate, MaxDate, Round]; a dateLimit is [value, isAbsolute,
\* exclusive, raw] or Nil.

\* Mutant: the exclusive comparison forgets the tolerance.
validateExclusiveBoundary_NoTolerance(val, boundaryTime, isMin) ==
    IF isMin THEN After(val, boundaryTime) ELSE Before(val, boundaryTime)

validateExclusiveBoundary(val, boundaryTime, isMin) ==
    IF isMin THEN After(val, AddNs(boundaryTime, TimeComparisonTolerance))
    ELSE Before(val, AddNs(boundaryTime, -TimeComparisonTolerance))

validateInclusiveBoundary(val, boundaryTime, isMin) ==
    IF isMin THEN ~Before(val, AddNs(boundaryTime, -TimeComparisonTolerance))
    ELSE ~After(val, AddNs(boundaryTime, TimeComparisonTolerance))

validateTimeBoundary(val, boundaryTime, exclusive, isMin) ==
    IF exclusive THEN validateExclusiveBoundary(val, boundaryTime, isMin)
    ELSE validateInclusiveBoundary(val, boundaryTime, isMin)

\* A limit whose Value reads the clock.
ReadsClock(d) == d # Nil /\ ~d.isAbsolute

\* dateLimit.Value when time.Now() returns now.
dateLimitValue(d, opts, now) ==
    IF d.isAbsolute THEN d.value
    ELSE LET v == resolveTimeExpression(d.raw, now)
         IN  IF v # Nil
             THEN (IF opts.Round # Nil THEN applyRounding(v, opts) ELSE v)
             ELSE now

\* Mutant: Value keeps the instant an expression bound resolved to in the
\* limit and answers from it afterwards.
dateLimitAfterValue_Memoised(d, opts, now) ==
    IF d.isAbsolute THEN d
    ELSE [d EXCEPT !.isAbsolute = TRUE, !.value = dateLimitValue(d, opts, now)]

\* The limit after d.Value(opts): Value has a pointer receiver and assigns
\* none of its fields (the rounding of an expression bound works on a
\* temporary Time).
dateLimitAfterValue(d, opts, now) == d

\* Mutant: both bounds are resolved and the maximum is reported first.
assertTimeRange_MaxFirst(val, opts, c, k) ==
    LET nowMin  == IF ReadsClock(opts.MinDate) THEN AddNs(c, k[2]) ELSE c
        minDate == IF opts.MinDate # Nil
                   THEN dateLimitValue(opts.MinDate, opts, nowMin) ELSE Nil
        minOk   == \/ opts.MinDate = Nil
                   \/ validateTimeBoundary(val, minDate, opts.MinDate.exclusive, TRUE)
        nowMax  == IF ReadsClock(opts.MaxDate) THEN AddNs(nowMin, k[3]) ELSE nowMin
        maxDate == IF opts.MaxDate # Nil
                   THEN dateLimitValue(opts.MaxDate, opts, nowMax) ELSE Nil
        maxOk   == \/ opts.MaxDate = Nil
                   \/ validateTimeBoundary(val, maxDate, opts.MaxDate.exclusive, FALSE)
    IN  [err    |-> IF ~maxOk THEN ErrMax ELSE IF ~minOk THEN ErrMin ELSE NoErr,
         clock  |-> nowMax, minB |-> minDate, maxB |-> maxDate,
         nowMin |-> IF ReadsClock(opts.MinDate) THEN nowMin ELSE Nil,
         nowMax |-> IF ReadsClock(opts.MaxDate) THEN nowMax ELSE Nil]

\* The two comparisons of assertTimeRange, the minimum first: minDate and
\* maxDate are the values of the limits, read at nowMin and nowMax.  A
\* minimum that fails returns before the maximum is read.
Compared(val, opts, nowMin, nowMax, minDate, maxDate) ==
    IF opts.MinDate # Nil
       /\ ~validateTimeBoundary(val, minDate, opts.MinDate.exclusive, TRUE)
    THEN [err    |-> ErrMin,
          clock  |-> nowMin, minB |-> minDate, maxB |-> Nil,
          nowMin |-> IF ReadsClock(opts.MinDate) THEN nowMin ELSE Nil,
          nowMax |-> Nil]
    ELSE [err    |-> IF opts.MaxDate # Nil
                        /\ ~validateTimeBoundary(val, maxDate, opts.MaxDate.exclusive, FALSE)
                     THEN ErrMax ELSE NoErr,
          clock  |-> nowMax, minB |-> minDate, maxB |-> maxDate,
          nowMin |-> IF ReadsClock(opts.MinDate) THEN nowMin ELSE Nil,
          nowMax |-> IF ReadsClock(opts.MaxDate) THEN nowMax ELSE Nil]

\* assertTimeRange on t.Val = val, the clock reading c before the call; k[2]
\* and k[3] are the delays before the reads of time.Now() that resolving an
\* expression minimum and maximum makes.  The result names the error, the
\* clock after the call, the instants compared against (Nil when not
\* compared) and the clock readings made for them (Nil when not made).
assertTimeRange(val, opts, c, k) ==
    LET nowMin == IF ReadsClock(opts.MinDate) THEN AddNs(c, k[2]) ELSE c
        nowMax == IF ReadsClock(opts.MaxDate) THEN AddNs(nowMin, k[3]) ELSE nowMin
    IN  Compared(val, opts, nowMin, nowMax,
                 IF opts.MinDate # Nil
                 THEN dateLimitValue(opts.MinDate, opts, nowMin) ELSE Nil,
                 IF opts.MaxDate # Nil
                 THEN dateLimitValue(opts.MaxDate, opts, nowMax) ELSE Nil)

\* ---------------------------------------------------------------- decoding
\* Each decoding operator takes the clock reading c before the call and the
\* delays k = <<k1, k2, k3>> before the reads of time.Now() made for the
\* input, the minimum and the maximum; a read that is not made takes no time.
\* The result is an Outcome: the Time after the call, the error, the clock
\* after the call, the instant the input resolved to before rounding (Nil
\* when none), the clock reading made for the input (Nil when none) and, from
\* the range check, the bounds compared against and the readings made for them.

NoRange == [minB |-> Nil, maxB |-> Nil, nowMin |-> Nil, nowMax |-> Nil]

Outcome(t, err, clock, raw, nowIn, r) ==
    [t |-> t, err |-> err, clock |-> clock, raw |-> raw, nowIn |-> nowIn,
     minB |-> r.minB, maxB |-> r.maxB, nowMin |-> r.nowMin, nowMax |-> r.nowMax]

\* A decode that stored the rounded value of raw in t and now checks the range.
Checked(t, raw, nowIn, r) == Outcome(t, r.err, r.clock, raw, nowIn, r)

CheckRange(t, raw, nowIn, opts, c, k) ==
    Checked(t, raw, nowIn, assertTimeRange(t.Val, opts, c, k))

\* Mutant: required is tested before nullable.
handleEmptyValue_RequiredFirst(t, opts) ==
    IF opts.Required THEN [t |-> t, err |-> ErrBlank]
    ELSE IF opts.Null THEN [t |-> [t EXCEPT !.Present = TRUE, !.Null = TRUE], err |-> NoErr]
    ELSE IF ~opts.DiscardBlank THEN [t |-> [t EXCEPT !.Present = TRUE], err |-> ErrBlank]
    ELSE [t |-> t, err |-> NoErr]

handleEmptyValue(t, opts) ==
    IF opts.Null THEN [t |-> [t EXCEPT !.Present = TRUE, !.Null = TRUE], err |-> NoErr]
    ELSE IF opts.Required THEN [t |-> t, err |-> ErrBlank]
    ELSE IF ~opts.DiscardBlank THEN [t |-> [t EXCEPT !.Present = TRUE], err |-> ErrBlank]
    ELSE [t |-> t, err |-> NoErr]

handleZeroTimeValue(t, opts) == handleEmptyValue(t, opts)

\* The Time after t.Present = true; t.Val = value; t.applyRounding(opts).
StoreRounded(t, value, opts) ==
    [t EXCEPT !.Present = TRUE, !.Val = applyRounding(value, opts)]

\* Mutant: the range is checked on the instant as given, which is rounded
\* only afterwards.
handleNonZeroTimeValue_CheckThenRound(t, value, opts, c, k) ==
    LET r == CheckRange([t EXCEPT !.Present = TRUE, !.Val = value], value, Nil, opts, c, k)
    IN  [r EXCEPT !.t = StoreRounded(t, value, opts)]

handleNonZeroTimeValue(t, value, opts, c, k) ==
    CheckRange(StoreRounded(t, value, opts), value, Nil, opts, c, k)

\* parseTimeExpression: [ok, t, raw] with the clock reading now.
parseTimeExpression(t, value, opts, now) ==
    LET v == resolveTimeExpression(value, now)
    IN  IF v # Nil THEN [ok |-> TRUE, t |-> StoreRounded(t, v, opts), raw |-> v]
        ELSE [ok |-> FALSE, t |-> t, raw |-> Nil]

\* Mutant: the value is stored without marking the Time present.
parseTimeFormat_NotPresent(t, value, format, opts) ==
    LET v == ParseLayout(format, value)
    IN  IF v # Nil
        THEN [ok |-> TRUE, t |-> [t EXCEPT !.Val = applyRounding(v, opts)], raw |-> v]
        ELSE [ok |-> FALSE, t |-> t, raw |-> Nil]

\* Mutant: the Time is marked present before the layout is tried.
parseTimeFormat_PresentFirst(t, value, format, opts) ==
    LET v == ParseLayout(format, value)
    IN  IF v # Nil THEN [ok |-> TRUE, t |-> StoreRounded(t, v, opts), raw |-> v]
        ELSE [ok |-> FALSE, t |-> [t EXCEPT !.Present = TRUE], raw |-> Nil]

\* parseTimeFormat: [ok, t, raw].
parseTimeFormat(t, value, format, opts) ==
    LET v == ParseLayout(format, value)
    IN  IF v # Nil THEN [ok |-> TRUE, t |-> StoreRounded(t, v, opts), raw |-> v]
        ELSE [ok |-> FALSE, t |-> t, raw |-> Nil]

\* The loop of parseTimeValue from the i-th format on.
RECURSIVE parseTimeValueFrom(_, _, _, _, _, _)

\* One turn of the loop once the i-th format has given p: a format that
\* parsed returns the range check, any other goes on to the next format.
Tried(i, p, nowIn, value, opts, now, k) ==
    IF p.ok THEN CheckRange(p.t, p.raw, nowIn, opts, now, k)
    ELSE parseTimeValueFrom(i + 1, p.t, value, opts, now, k)

parseTimeValueFrom(i, t, value, opts, c, k) ==
    IF i > Len(opts.Format) THEN Outcome(t, ErrTime, c, Nil, Nil, NoRange)
    ELSE LET format == opts.Format[i]
             reads  == format = "expression" /\ MatchesExpression(value)
             now    == IF reads THEN AddNs(c, k[1]) ELSE c
         IN  Tried(i,
                   IF format = "expression"
                   THEN parseTimeExpression(t, value, opts, now)
                   ELSE parseTimeFormat(t, value, format, opts),
                   IF reads THEN now ELSE Nil, value, opts, now, k)

\* Mutant: the formats are tried from the last to the first.
parseTimeValue_Backwards(t, value, opts, c, k) ==
    LET n == Len(opts.Format)
        reversed == [i \in 1..n |-> opts.Format[n + 1 - i]]
    IN  parseTimeValueFrom(1, t, value, [opts EXCEPT !.Format = reversed], c, k)

parseTimeValue(t, value, opts, c, k) == parseTimeValueFrom(1, t, value, opts, c, k)

FormValue(t, value, opts, c, k) ==
    IF value = EmptyText
    THEN LET r == handleEmptyValue(t, opts) IN Outcome(r.t, r.err, c, Nil, Nil, NoRange)
    ELSE parseTimeValue(t, value, opts, c, k)

\* JSONValue: i is [kind |-> "nil"], [kind |-> "time", value |-> instant],
\* [kind |-> "string", value |-> text] or [kind |-> "other"] (any other type).
JSONValue(t, i, opts, c, k) ==
    CASE i.kind = "nil"    -> FormValue(t, EmptyText, opts, c, k)
      [] i.kind = "time"   ->
            IF IsZero(i.value)
            THEN LET r == handleZeroTimeValue(t, opts)
                 IN  Outcome(r.t, r.err, c, Nil, Nil, NoRange)
            ELSE handleNonZeroTimeValue(t, i.value, opts, c, k)
      [] i.kind = "string" -> FormValue(t, i.value, opts, c, k)
      [] OTHER             -> Outcome(t, ErrTime, c, Nil, Nil, NoRange)

\* ----------------------------------------------------------- configuration

ZeroTime == [Val |-> ZeroInstant, Null |-> FALSE, Present |-> FALSE]

\* parseExclusivePrefix: a bound tag is [bang, body], the text body after an
\* optional leading "!".
parseExclusivePrefix(raw) == [value |-> raw.body, exclusive |-> raw.bang]

NoTag == [bang |-> FALSE, body |-> EmptyText]

\* The limit newDateLimit builds from the decode r of a bound that is no
\* expression: none when the decode failed.
AbsoluteLimit(p, r) ==
    IF r.err # NoErr THEN Nil
    ELSE [value |-> r.t.Val, isAbsolute |-> TRUE, exclusive |-> p.exclusive, raw |-> p.value]

\* Mutant: an expression bound is resolved when the configuration is built
\* and kept as a fixed instant.
newDateLimit_Cached(raw, opts, now) ==
    IF raw = NoTag THEN Nil
    ELSE LET p == parseExclusivePrefix(raw)
             v == resolveTimeExpression(p.value, now)
         IN  IF v # Nil
             THEN [value |-> v, isAbsolute |-> TRUE,
                   exclusive |-> p.exclusive, raw |-> p.value]
             ELSE LET r == FormValue(ZeroTime, p.value, opts, now, <<0, 0, 0>>)
                  IN  IF r.err # NoErr THEN Nil
                      ELSE [value |-> r.t.Val, isAbsolute |-> TRUE,
                            exclusive |-> p.exclusive, raw |-> p.value]

\* Mutant: a bound is whatever FormValue makes of the option, so that an
\* expression needs "expression" among the formats and becomes a fixed
\* instant.
newDateLimit_FormatsOnly(raw, opts, now) ==
    IF raw = NoTag THEN Nil
    ELSE AbsoluteLimit(parseExclusivePrefix(raw),
                       FormValue(ZeroTime, parseExclusivePrefix(raw).value, opts, now,
                                 <<0, 0, 0>>))

\* newDateLimit with the clock reading now.
newDateLimit(raw, opts, now) ==
    IF raw = NoTag THEN Nil
    ELSE LET p == parseExclusivePrefix(raw)
         IN  IF resolveTimeExpression(p.value, now) # Nil
             THEN [value |-> ZeroInstant, isAbsolute |-> FALSE,
                   exclusive |-> p.exclusive, raw |-> p.value]
             ELSE AbsoluteLimit(p, FormValue(ZeroTime, p.value, opts, now, <<0, 0, 0>>))

\* The assignments of ParseOptions to opts.MinDate, opts.MaxDate and
\* opts.Round, in the order the code makes them.
WithMinDate(tag, now, o) == [o EXCEPT !.MinDate = newDateLimit(tag.min, o, now)]

\* Mutant: the maximum is built from options that hold no minimum yet.
WithMaxDate_Unchecked(tag, now, o) ==
    [o EXCEPT !.MaxDate = newDateLimit(tag.max, [o EXCEPT !.MinDate = Nil], now)]

WithMaxDate(tag, now, o) == [o EXCEPT !.MaxDate = newDateLimit(tag.max, o, now)]

WithRound(tag, o) ==
    IF tag.round # <<>> THEN [o EXCEPT !.Round = parseRoundConfig(tag.round)] ELSE o

\* ParseOptions: tag is [required, discard_blank, null, format, min, max,
\* round], the values of the meta_ tags; the clock reads now throughout.
ParseOptions(tag, now) ==
    WithRound(tag,
        WithMaxDate(tag, now,
            WithMinDate(tag, now,
                [Required     |-> tag.required = "true",
                 DiscardBlank |-> tag.discard_blank # "false",
                 Null         |-> tag.null = "true",
                 Format       |-> parseFormats(tag.format),
                 MinDate      |-> Nil,
                 MaxDate      |-> Nil,
                 Round        |-> Nil])))

\* ------------------------------------------------------------ state machine

VARIABLES
    clock,   \* the instant time.Now() returned last
    opts,    \* the field's *TimeOptions; Nil until ParseOptions has run
    t,       \* the Time the decoder writes into
    call     \* the last decode: its operation, input, the Time before it
             \* and its Outcome

vars == <<clock, opts, t, call>>

NoCall == [op |-> "none"]

\* The RFC 3339 text of an instant, with the fraction the instant has.
TextOf(x) ==
    DateTimeText(Year(x), Month(x), Day(x), Hour(x), Minute(x), Second(x), Nanosecond(x))

Tag(required, discard_blank, null, format, min, max, round) ==
    [required |-> required, discard_blank |-> discard_blank, null |-> null,
     format |-> format, min |-> min, max |-> max, round |-> round]

Bound(bang, body) == [bang |-> bang, body |-> body]

\* ParseOptions runs once per field declaration.
Configure(tag) ==
    /\ opts = Nil
    /\ opts' = ParseOptions(tag, clock)
    /\ UNCHANGED <<clock, t, call>>

Decoded(op, input, r) ==
    /\ t' = r.t
    /\ clock' = r.clock
    /\ call' = [op |-> op, input |-> input, pre |-> t, err |-> r.err, raw |-> r.raw,
                nowIn |-> r.nowIn, minB |-> r.minB, maxB |-> r.maxB,
                nowMin |-> r.nowMin, nowMax |-> r.nowMax]
    /\ UNCHANGED opts

\* A decode from a form or query source.
DecodeForm(value, k) ==
    /\ opts # Nil
    /\ Decoded("FormValue", value, FormValue(t, value, opts, clock, k))

\* A decode from a map or JSON source.
DecodeJSON(i, k) ==
    /\ opts # Nil
    /\ Decoded("JSONValue", i, JSONValue(t, i, opts, clock, k))

\* The decoder moves on to a new, zero Time.
Fresh ==
    /\ opts # Nil
    /\ call # NoCall
    /\ t' = ZeroTime
    /\ call' = NoCall
    /\ UNCHANGED <<clock, opts>>

\* Time passes between calls.
Pass(later) ==
    /\ opts # Nil
    /\ Before(clock, later)
    /\ clock' = later
    /\ UNCHANGED <<opts, t, call>>

\* The clock of a run stays within MaxDrift nanoseconds of an origin.
MaxDrift == 250000001

InTime(origin) == ~After(clock', AddNs(origin, MaxDrift))

\* A decode into a Time that no decode has written yet.
FirstDecodeForm(value, k) == call = NoCall /\ DecodeForm(value, k)

FirstDecodeJSON(i, k) == call = NoCall /\ DecodeJSON(i, k)

\* ------------------------------------------------- the literal-bound model
\* Spec: every flag combination, three format lists, literal bounds at
\* BoundA and BoundB, candidates at and around the tolerance edges of both,
\* each decoded into a fresh Time.

BoundA == Date(2024, 1, 1, 0, 0, 0, 0)
BoundB == Date(2024, 12, 31, 23, 59, 59, 0)

Candidates ==
    UNION {{AddNs(b, -TimeComparisonTolerance - 1), AddNs(b, -TimeComparisonTolerance), b,
            AddNs(b, TimeComparisonTolerance), AddNs(b, TimeComparisonTolerance + 1)}
           : b \in {BoundA, BoundB}}
    \cup {Date(2024, 6, 15, 12, 30, 45, 0), Date(2024, 12, 31, 23, 30, 0, 0)}

Texts ==
    {EmptyText, OtherText, Date3Text(2024, 3, 4), Date3Text(2024, 13, 1),
     DateTimeText(2024, 2, 30, 0, 0, 0, 0),
     AbsoluteText("now"), RelativeText(1, UnitDay, "ago")}
    \cup {TextOf(x) : x \in Candidates}

JSONInputs ==
    {[kind |-> "nil"], [kind |-> "other"], [kind |-> "time", value |-> ZeroInstant]}
    \cup {[kind |-> "time", value |-> x] : x \in Candidates}
    \cup {[kind |-> "string", value |-> v] : v \in Texts}

Formats ==
    {<<>>, <<"DateOnly", "2006-02-01">>,
     <<"2006-02-01", "DateOnly", "RFC3339", "expression">>}

MinTags == {NoTag, Bound(FALSE, TextOf(BoundA)), Bound(TRUE, TextOf(BoundA))}
MaxTags ==
    {NoTag, Bound(FALSE, TextOf(BoundB)), Bound(TRUE, TextOf(BoundB)),
     Bound(FALSE, Date3Text(2024, 3, 15))}
RoundTags == {<<>>, <<"day", "up">>, <<"hour">>}

Tags ==
    {Tag(r, d, n, f, mn, mx, rd) :
        r \in {"", "true"}, d \in {"", "false"}, n \in {"", "true"},
        f \in Formats, mn \in MinTags, mx \in MaxTags, rd \in RoundTags}

Skews == {0, TimeComparisonTolerance, TimeComparisonTolerance + 1}

ClockStart == Date(2024, 12, 31, 23, 59, 59, 900000000)

Init ==
    /\ clock = ClockStart
    /\ opts = Nil
    /\ t = ZeroTime
    /\ call = NoCall

Next ==
    \/ \E tag \in Tags : Configure(tag)
    \/ \E value \in Texts, k1 \in Skews :
          FirstDecodeForm(value, <<k1, 0, 0>>) /\ InTime(ClockStart)
    \/ \E i \in JSONInputs, k1 \in Skews :
          FirstDecodeJSON(i, <<k1, 0, 0>>) /\ InTime(ClockStart)
    \/ Fresh

Spec == Init /\ [][Next]_vars

\* --------------------------------------------------------- the reuse model
\* SpecReuse: a Time is decoded into again and again without being reset, as
\* when one struct is handed to the decoder twice.

ReuseTags ==
    {Tag(r, "", n, f, mn, NoTag, rd) :
        r \in {"", "true"}, n \in {"", "true"}, f \in Formats,
        mn \in {NoTag, Bound(TRUE, TextOf(BoundA))}, rd \in {<<>>, <<"day", "up">>}}

ReuseTexts ==
    {EmptyText, OtherText, Date3Text(2024, 13, 1), DateTimeText(2024, 2, 30, 0, 0, 0, 0),
     Date3Text(2024, 2, 30), RelativeText(1, UnitDay, "ago"),
     TextOf(BoundA), TextOf(Date(2024, 6, 15, 12, 30, 45, 0))}

ReuseJSONInputs ==
    {[kind |-> "nil"], [kind |-> "other"],
     [kind |-> "time", value |-> Date(2024, 12, 31, 23, 30, 0, 0)],
     [kind |-> "string", value |-> OtherText],
     [kind |-> "string", value |-> Date3Text(2024, 3, 4)]}

NextReuse ==
    \/ \E tag \in ReuseTags : Configure(tag)
    \/ \E value \in ReuseTexts, k1 \in Skews :
          DecodeForm(value, <<k1, 0, 0>>) /\ InTime(ClockStart)
    \/ \E i \in ReuseJSONInputs, k1 \in Skews :
          DecodeJSON(i, <<k1, 0, 0>>) /\ InTime(ClockStart)
    \/ Fresh

SpecReuse == Init /\ [][NextReuse]_vars

\* --------------------------------------------------- the clock-bound model
\* SpecNow: bounds and inputs given as expressions, a clock that moves
\* between the readings of one call, and decodes before and after a pause.

ClockLater == Date(2025, 1, 1, 12, 0, 0, 0)
BoundFar   == Date(2025, 6, 1, 0, 0, 0, 0)

Origin == IF Before(clock, ClockLater) THEN ClockStart ELSE ClockLater

NowTexts ==
    {AbsoluteText("now"), AbsoluteText("today"),
     RelativeText(1, UnitDay, "ago"), RelativeText(1, UnitDay, "from_now"),
     RelativeText(1, UnitMonth, "ago"), RelativeText(1, UnitHour, "ago"),
     RelativeText(1, UnitHour, "from_now")}

NowMinTags ==
    {NoTag, Bound(FALSE, TextOf(BoundFar))}
    \cup {Bound(b, e) : b \in BOOLEAN,
                        e \in {AbsoluteText("now"), AbsoluteText("today"),
                               RelativeText(1, UnitDay, "ago"),
                               RelativeText(1, UnitMonth, "ago"),
                               RelativeText(1, UnitHour, "ago"),
                               RelativeText(1, UnitDay, "from_now")}}

NowMaxTags ==
    {NoTag}
    \cup {Bound(b, e) : b \in BOOLEAN,
                        e \in {AbsoluteText("now"), AbsoluteText("today"),
                               RelativeText(1, UnitDay, "ago"),
                               RelativeText(1, UnitDay, "from_now"),
                               RelativeText(1, UnitHour, "from_now")}}

NowTags ==
    {Tag("", "", "", <<>>, mn, mx, rd) :
        mn \in NowMinTags, mx \in NowMaxTags, rd \in {<<>>, <<"day", "up">>}}

NowJSONInputs ==
    {[kind |-> "time", value |-> Date(2025, 1, 1, 0, 0, 0, 0)],
     [kind |-> "string", value |-> TextOf(Date(2024, 12, 31, 23, 30, 0, 0))]}

NextNow ==
    \/ \E tag \in NowTags : Configure(tag)
    \/ \E value \in NowTexts, k1, k2, k3 \in Skews :
          FirstDecodeForm(value, <<k1, k2, k3>>) /\ InTime(Origin)
    \/ \E i \in NowJSONInputs, k1, k2, k3 \in Skews :
          FirstDecodeJSON(i, <<k1, k2, k3>>) /\ InTime(Origin)
    \/ Fresh
    \/ Pass(ClockLater)

SpecNow == Init /\ [][NextNow]_vars

\* ------------------------------------------------------- the rounding model
\* SpecRound: every unit token (the seven units, the weekday names and their
\* abbreviations, and one token that is none of them) with every direction
\* part, no bounds, and instants at, next to and between the boundaries of
\* every unit, decoded as pre-typed instants and as RFC 3339 texts.

RoundUnitTokens == validUnits \cup DOMAIN dayNameToWeekday \cup {"invalid"}

RoundTagsAll ==
    {<<u>> : u \in RoundUnitTokens}
    \cup {<<u, d>> : u \in RoundUnitTokens, d \in validDirections \cup {"sideways"}}

RoundInstants ==
    {Date(2024, 1, 1, 0, 0, 0, 0),           \* a Monday, 1 January, midnight
     Date(2024, 1, 1, 8, 0, 0, 1),
     Date(2024, 1, 15, 0, 0, 0, 0),          \* a Monday, midnight
     Date(2024, 1, 15, 12, 0, 0, 0),         \* the middle of a day
     Date(2024, 1, 15, 12, 0, 0, 1),
     Date(2024, 1, 15, 14, 0, 0, 0),
     Date(2024, 1, 15, 14, 30, 0, 0),        \* the middle of an hour
     Date(2024, 1, 15, 14, 30, 0, 1),
     Date(2024, 1, 15, 14, 30, 30, 0),       \* the middle of a minute
     Date(2024, 1, 15, 14, 30, 45, 0),
     Date(2024, 1, 15, 14, 30, 45, 500000000),
     Date(2024, 1, 15, 14, 30, 45, 500000001),
     Date(2024, 1, 17, 0, 0, 0, 0),          \* a Wednesday, midnight
     Date(2024, 1, 17, 14, 30, 45, 0),
     Date(2024, 1, 18, 12, 0, 0, 0),         \* the middle of a Monday week
     Date(2024, 1, 18, 12, 0, 0, 1),
     Date(2024, 1, 21, 23, 59, 59, 0),       \* a Sunday
     Date(2024, 1, 31, 23, 59, 59, 999999999),
     Date(2024, 2, 1, 0, 0, 0, 0),
     Date(2024, 2, 1, 10, 0, 0, 0),
     Date(2024, 2, 15, 12, 0, 0, 0),         \* the middle of a 29-day month
     Date(2024, 2, 15, 12, 0, 0, 1),
     Date(2024, 2, 29, 12, 0, 0, 0),
     Date(2023, 2, 28, 23, 0, 0, 0),
     Date(2024, 4, 30, 18, 0, 0, 0),
     Date(2024, 7, 2, 0, 0, 0, 0),           \* the middle of a leap year
     Date(2024, 7, 2, 0, 0, 0, 1),
     Date(2024, 12, 31, 12, 0, 0, 0),
     Date(2024, 12, 31, 23, 59, 59, 500000000)}

NextRound ==
    \/ \E r \in RoundTagsAll : Configure(Tag("", "", "", <<>>, NoTag, NoTag, r))
    \/ \E x \in RoundInstants : FirstDecodeForm(TextOf(x), <<0, 0, 0>>)
    \/ \E x \in RoundInstants : FirstDecodeJSON([kind |-> "time", value |-> x], <<0, 0, 0>>)
    \/ Fresh

SpecRound == Init /\ [][NextRound]_vars

\* ----------------------------------------------------- the expression model
\* SpecExpr: relative expressions of every unit, both directions and several
\* counts, decoded without rounding at the end of a 31-day month, in the
\* middle of a month and at the end of a leap day, with and without
\* expression bounds (whose resolution reads the clock again after the
\* input's), and a clock that moves between any two readings.

ExprMid  == Date(2025, 3, 15, 12, 0, 0, 0)
ExprLeap == Date(2028, 2, 29, 23, 59, 59, 900000000)

ExprOrigin ==
    IF Before(clock, ExprMid) THEN ClockStart
    ELSE IF Before(clock, ExprLeap) THEN ExprMid ELSE ExprLeap

ExprUnits == validUnits \cup {"nanosecond"}

ExprCounts == {0, 1, 2, 13}

ExprTexts ==
    {RelativeText(n, u, d) : n \in ExprCounts, u \in ExprUnits, d \in {"ago", "from_now"}}
    \cup {AbsoluteText("now")}

\* Delays of 0, 100 and 150 ms: from 23:59:59.9 the second reading of a call
\* can fall on midnight and the third after it.
ExprSkews == {0, 100000000, 150000000}

ExprTags ==
    {Tag("", "", "", f, mn, mx, <<>>) :
        f  \in {<<>>},
        mn \in {NoTag, Bound(FALSE, RelativeText(20, UnitYear, "ago"))},
        mx \in {NoTag, Bound(FALSE, RelativeText(20, UnitYear, "from_now"))}}

NextExpr ==
    \/ \E tag \in ExprTags : Configure(tag)
    \/ \E value \in ExprTexts, k1, k2, k3 \in ExprSkews :
          FirstDecodeForm(value, <<k1, k2, k3>>) /\ InTime(ExprOrigin)
    \/ \E value \in ExprTexts, k1, k2, k3 \in ExprSkews :
          FirstDecodeJSON([kind |-> "string", value |-> value], <<k1, k2, k3>>)
          /\ InTime(ExprOrigin)
    \/ Fresh
    \/ \E later \in {ExprMid, ExprLeap} : Pass(later)

SpecExpr == Init /\ [][NextExpr]_vars

\* ---------------------------------------------------------- the count model
\* SpecCount: relative expressions of the four duration units whose counts
\* are written in digits, from counts with leading zeros to the largest
\* count whose product with the unit is a Duration, the first that is not,
\* the largest int and the first count strconv.Atoi refuses.

CountDigits ==
    {<<0>>, <<0, 0, 7>>,
     <<2, 5, 6, 2, 0, 4, 7>>, <<2, 5, 6, 2, 0, 4, 8>>, <<5, 1, 2, 4, 0, 9, 6>>,
     <<1, 5, 3, 7, 2, 2, 8, 6, 7>>, <<1, 5, 3, 7, 2, 2, 8, 6, 8>>,
     <<9, 2, 2, 3, 3, 7, 2, 0, 3, 6>>, <<9, 2, 2, 3, 3, 7, 2, 0, 3, 7>>,
     <<9, 2, 2, 3, 3, 7, 2, 0, 3, 6, 8, 5, 4, 7, 7, 5, 8, 0, 7>>,
     <<9, 2, 2, 3, 3, 7, 2, 0, 3, 6, 8, 5, 4, 7, 7, 5, 8, 0, 8>>,
     <<9, 9, 9, 9, 9, 9, 9, 9, 9, 9, 9, 9, 9, 9, 9, 9, 9, 9, 9, 9>>}

CountTexts ==
    {RelativeDigitsText(ds, u, d) :
        ds \in CountDigits, u \in DOMAIN timeUnitDurationFactors, d \in {"ago", "from_now"}}

NextCount ==
    \/ Configure(Tag("", "", "", <<>>, NoTag, NoTag, <<>>))
    \/ \E value \in CountTexts, k1 \in Skews :
          FirstDecodeForm(value, <<k1, 0, 0>>) /\ InTime(ClockStart)
    \/ \E value \in CountTexts, k1 \in Skews :
          FirstDecodeJSON([kind |-> "string", value |-> value], <<k1, 0, 0>>)
          /\ InTime(ClockStart)
    \/ Fresh

SpecCount == Init /\ [][NextCount]_vars

\* ----------------------------------------------------- the concurrent model
\* SpecConcurrent: two decoders, each decoding one input into a Time of its
\* own (decoder 1 a form value, decoder 2 a JSON value) against the one
\* *TimeOptions of the field.  A decode runs in three
\* steps, each reading the clock as it then stands: the input is parsed,
\* stored and rounded; the minimum is resolved and compared; the maximum is
\* resolved and compared.  The steps of the two decoders and the ticks of
\* the clock interleave in every order.  Here t and call hold one Time and
\* one call per decoder; a call records the clock reading c when it began
\* and the delays k before its reads of time.Now(), wait being the time
\* passed since its last read.

Decoders == {1, 2}

Idle == [pc |-> "idle"]

InitConcurrent ==
    /\ clock = ClockStart
    /\ opts = Nil
    /\ t = [p \in Decoders |-> ZeroTime]
    /\ call = [p \in Decoders |-> Idle]

BeginDecode(p, op, input) ==
    /\ opts # Nil
    /\ call[p].pc = "idle"
    /\ call' = [call EXCEPT ![p] = [pc |-> "value", op |-> op, input |-> input,
                                    c |-> clock, k |-> <<0, 0, 0>>, wait |-> 0,
                                    err |-> NoErr]]
    /\ UNCHANGED <<clock, opts, t>>

\* The part of a decode before assertTimeRange: it reads no limit.
WithoutLimits(o) == [o EXCEPT !.MinDate = Nil, !.MaxDate = Nil]

ValuePhase(cl, tm, o, now) ==
    IF cl.op = "FormValue" THEN FormValue(tm, cl.input, WithoutLimits(o), now, <<0, 0, 0>>)
    ELSE JSONValue(tm, cl.input, WithoutLimits(o), now, <<0, 0, 0>>)

\* The call after its j-th read of time.Now().
ReadNow(cl, j) == [cl EXCEPT !.k[j] = cl.wait, !.wait = 0]

\* The call after the value phase gave r: only a value that was stored goes
\* on to the range check.
AfterValue(cl, r) ==
    [(IF r.nowIn # Nil THEN ReadNow(cl, 1) ELSE cl)
        EXCEPT !.pc = IF r.raw = Nil THEN "done" ELSE "min", !.err = r.err]

\* The value phase of decoder p gave r.
ValueStored(p, r) ==
    /\ t' = [t EXCEPT ![p] = r.t]
    /\ call' = [call EXCEPT ![p] = AfterValue(call[p], r)]

StepValue(p) ==
    /\ call[p].pc = "value"
    /\ ValueStored(p, ValuePhase(call[p], t[p], opts, clock))
    /\ UNCHANGED <<clock, opts>>

\* The call after the comparison with limit d, the j-th read of the call.
AfterLimit(cl, d, j, ok, failure, next) ==
    [(IF ReadsClock(d) THEN ReadNow(cl, j) ELSE cl)
        EXCEPT !.pc = IF ok THEN next ELSE "done", !.err = IF ok THEN NoErr ELSE failure]

StepMin(p) ==
    /\ call[p].pc = "min"
    /\ IF opts.MinDate = Nil
       THEN call' = [call EXCEPT ![p].pc = "max"] /\ UNCHANGED opts
       ELSE /\ call' = [call EXCEPT ![p] =
                           AfterLimit(call[p], opts.MinDate, 2,
                                      validateTimeBoundary(t[p].Val,
                                          dateLimitValue(opts.MinDate, opts, clock),
                                          opts.MinDate.exclusive, TRUE),
                                      ErrMin, "max")]
            /\ opts' = [opts EXCEPT !.MinDate = dateLimitAfterValue(opts.MinDate, opts, clock)]
    /\ UNCHANGED <<clock, t>>

StepMax(p) ==
    /\ call[p].pc = "max"
    /\ IF opts.MaxDate = Nil
       THEN call' = [call EXCEPT ![p].pc = "done"] /\ UNCHANGED opts
       ELSE /\ call' = [call EXCEPT ![p] =
                           AfterLimit(call[p], opts.MaxDate, 3,
                                      validateTimeBoundary(t[p].Val,
                                          dateLimitValue(opts.MaxDate, opts, clock),
                                          opts.MaxDate.exclusive, FALSE),
                                      ErrMax, "done")]
            /\ opts' = [opts EXCEPT !.MaxDate = dateLimitAfterValue(opts.MaxDate, opts, clock)]
    /\ UNCHANGED <<clock, t>>

\* The clock moves on by d nanoseconds while calls are running.
Tick(d) ==
    /\ opts # Nil
    /\ clock' = AddNs(clock, d)
    /\ InTime(ClockStart)
    /\ call' = [p \in Decoders |->
                   IF call[p].pc \in {"value", "min", "max"}
                   THEN [call[p] EXCEPT !.wait = @ + d] ELSE call[p]]
    /\ UNCHANGED <<opts, t>>

\* A literal 350 ms after ClockStart is within the tolerance of a maximum
\* "now" read 100 ms after ClockStart or later; an instant a day and 100 ms
\* before ClockStart is within the tolerance of a minimum "1_day_ago" read
\* 150 ms after ClockStart or earlier.
ConcurrentLate  == AddNs(ClockStart, 350000000)
ConcurrentEarly == AddNs(AddDate(ClockStart, 0, 0, -1), -100000000)

ConcurrentTexts == {AbsoluteText("now"), TextOf(ConcurrentLate), OtherText}

ConcurrentValues == {[kind |-> "time", value |-> ConcurrentEarly], [kind |-> "nil"]}

ConcurrentTags ==
    {Tag("", "", "", <<>>, NoTag, NoTag, <<>>)}
    \cup {Tag("", "", "", <<>>, Bound(FALSE, RelativeText(1, UnitDay, "ago")),
               Bound(FALSE, AbsoluteText("now")), rd) : rd \in {<<>>, <<"second">>}}

ConcurrentTicks == {100000000, 150000000}

NextConcurrent ==
    \/ \E tag \in ConcurrentTags : Configure(tag)
    \/ \E value \in ConcurrentTexts : BeginDecode(1, "FormValue", value)
    \/ \E i \in ConcurrentValues : BeginDecode(2, "JSONValue", i)
    \/ \E p \in Decoders : StepValue(p)
    \/ \E p \in Decoders : StepMin(p)
    \/ \E p \in Decoders : StepMax(p)
    \/ \E d \in ConcurrentTicks : Tick(d)

SpecConcurrent == InitConcurrent /\ [][NextConcurrent]_vars

\* ---------------------------------------------------- the serialization model
\* SpecJSON: a Time built as the zero value or by NewTime, then written by
\* any sequence of FormValue, JSONValue and UnmarshalJSON calls, and read by
\* MarshalJSON and Value.

NewTime(x) == [Val |-> x, Null |-> FALSE, Present |-> TRUE]

\* The JSON null literal.
nullString == [json |-> "null"]

\* MetaJson.Marshal of an instant: the JSON string of its timestamp.
MetaJsonMarshal(val) == [json |-> "string", text |-> TextOf(val)]

\* MetaJson.Unmarshal of JSON bytes into an instant: the instant of a JSON
\* string holding an RFC 3339 timestamp, Nil (an error) for anything else.
MetaJsonUnmarshal(b) ==
    IF b.json = "string" THEN ParseLayout(RFC3339, b.text) ELSE Nil

\* Value: the instant or nil, and the error, which is always nil.
Value(tm) ==
    IF tm.Present /\ ~tm.Null THEN [value |-> tm.Val, err |-> NoErr]
    ELSE [value |-> Nil, err |-> NoErr]

\* Mutant: a null value is serialized as its instant.
MarshalJSON_IgnoresNull(tm) ==
    IF tm.Present THEN [bytes |-> MetaJsonMarshal(tm.Val), err |-> NoErr]
    ELSE [bytes |-> nullString, err |-> NoErr]

\* MarshalJSON: the bytes and the error.
MarshalJSON(tm) ==
    IF tm.Present /\ ~tm.Null THEN [bytes |-> MetaJsonMarshal(tm.Val), err |-> NoErr]
    ELSE [bytes |-> nullString, err |-> NoErr]

\* UnmarshalJSON of the bytes b into the Time tm; failed is what a failed
\* MetaJson.Unmarshal leaves in its Val.
UnmarshalJSON(tm, b, failed) ==
    IF b = nullString THEN [t |-> [tm EXCEPT !.Null = TRUE], err |-> NoErr]
    ELSE IF MetaJsonUnmarshal(b) = Nil
         THEN [t |-> [tm EXCEPT !.Val = failed], err |-> "error"]
         ELSE [t |-> [tm EXCEPT !.Val = MetaJsonUnmarshal(b), !.Present = TRUE, !.Null = FALSE],
               err |-> NoErr]

NoSamples == [raw |-> Nil, nowIn |-> Nil, minB |-> Nil, maxB |-> Nil,
              nowMin |-> Nil, nowMax |-> Nil]

\* A JSON document is unmarshalled into the Time; a failed unmarshal leaves
\* the instant as it was or zero.
Unmarshal(b) ==
    \E failed \in {t.Val, ZeroInstant} :
        /\ t' = UnmarshalJSON(t, b, failed).t
        /\ call' = [op |-> "UnmarshalJSON", input |-> b, pre |-> t,
                    err |-> UnmarshalJSON(t, b, failed).err] @@ NoSamples
        /\ UNCHANGED <<clock, opts>>

\* The Time is replaced by one built by NewTime.
Build(x) ==
    /\ call # NoCall
    /\ t' = NewTime(x)
    /\ call' = NoCall
    /\ UNCHANGED <<clock, opts>>

\* The Time is serialized to JSON.
Marshal ==
    /\ call' = [op |-> "MarshalJSON", input |-> t, pre |-> t,
                err |-> MarshalJSON(t).err, out |-> MarshalJSON(t).bytes] @@ NoSamples
    /\ UNCHANGED <<clock, opts, t>>

\* The Time is handed to the database driver.
Store ==
    /\ call' = [op |-> "Value", input |-> t, pre |-> t,
                err |-> Value(t).err, out |-> Value(t).value] @@ NoSamples
    /\ UNCHANGED <<clock, opts, t>>

JSONInstantA == Date(2024, 1, 15, 14, 30, 45, 0)
JSONInstantB == Date(2024, 6, 15, 12, 30, 45, 500000000)

JSONTags ==
    {Tag(r, d, n, <<>>, NoTag, mx, <<>>) :
        r \in {"", "true"}, d \in {"", "false"}, n \in {"", "true"},
        mx \in {NoTag, Bound(FALSE, TextOf(JSONInstantA))}}

JSONTexts == {EmptyText, OtherText, TextOf(JSONInstantA), TextOf(JSONInstantB)}

JSONDocuments ==
    {nullString, [json |-> "number"], [json |-> "string", text |-> OtherText],
     MetaJsonMarshal(JSONInstantA), MetaJsonMarshal(JSONInstantB)}

NextJSON ==
    \/ \E tag \in JSONTags : Configure(tag)
    \/ \E value \in JSONTexts : DecodeForm(value, <<0, 0, 0>>)
    \/ \E x \in {ZeroInstant, JSONInstantB} :
          DecodeJSON([kind |-> "time", value |-> x], <<0, 0, 0>>)
    \/ \E b \in JSONDocuments : Unmarshal(b)
    \/ \E x \in {JSONInstantA} : Build(x)
    \/ Marshal
    \/ Store
    \/ Fresh

SpecJSON == Init /\ [][NextJSON]_vars

\* ------------------------------------------------------ the bound-option model
\* SpecBounds: minimum and maximum options that are literals in and out of
\* the field's formats, expressions and unusable texts, under format lists
\* with and without "expression"; maximum literals at and around the
\* tolerance edges of the minimum.

BoundMaxima ==
    {AddNs(BoundA, -TimeComparisonTolerance - 1), AddNs(BoundA, -TimeComparisonTolerance),
     BoundA, AddNs(BoundA, TimeComparisonTolerance),
     AddNs(BoundA, TimeComparisonTolerance + 1), BoundB}

BoundBodies ==
    {OtherText, Date3Text(2024, 3, 4), DateTimeText(2024, 2, 30, 0, 0, 0, 0),
     AbsoluteText("today"), RelativeText(1, UnitDay, "from_now")}

BoundMinTags ==
    {NoTag} \cup {Bound(b, e) : b \in BOOLEAN, e \in BoundBodies \cup {TextOf(BoundA)}}

BoundMaxTags ==
    {NoTag} \cup {Bound(b, e) : b \in BOOLEAN,
                                e \in BoundBodies \cup {TextOf(x) : x \in BoundMaxima}}

BoundFormats == {<<>>, <<"RFC3339">>, <<"DateOnly", "RFC3339">>}

BoundOptionTags ==
    {Tag("", "", "", f, mn, mx, <<>>) :
        f \in BoundFormats, mn \in BoundMinTags, mx \in BoundMaxTags}

BoundInputs ==
    {Date(2023, 6, 1, 0, 0, 0, 0), BoundA, Date(2024, 3, 4, 0, 0, 0, 0), BoundB,
     Date(2025, 1, 1, 23, 59, 59, 900000000), Date(2025, 6, 1, 0, 0, 0, 0)}

NextBounds ==
    \/ \E tag \in BoundOptionTags : Configure(tag)
    \/ \E x \in BoundInputs : FirstDecodeForm(TextOf(x), <<0, 0, 0>>)
    \/ \E x \in BoundInputs : FirstDecodeJSON([kind |-> "time", value |-> x], <<0, 0, 0>>)
    \/ Fresh

SpecBounds == Init /\ [][NextBounds]_vars

\* ------------------------------------------------------------------ claims
\* What the claims say of a finished decode, read off the last call.

IsCall == call # NoCall

IsBlankCall ==
    \/ call.op = "FormValue" /\ call.input = EmptyText
    \/ /\ call.op = "JSONValue"
       /\ \/ call.input.kind = "nil"
          \/ call.input.kind = "string" /\ call.input.value = EmptyText
          \/ call.input.kind = "time" /\ IsZero(call.input.value)

\* The text a call decoded, Nil when its input was no text.
CallText ==
    IF call.op = "FormValue" THEN call.input
    ELSE IF call.op = "JSONValue" /\ call.input.kind = "string" THEN call.input.value
    ELSE Nil

\* What one format makes of a text when the clock reads now.
ResolvedBy(format, value, now) ==
    IF format = "expression" THEN resolveTimeExpression(value, now)
    ELSE ParseLayout(format, value)

\* The positions of the formats that resolve the text.
Resolving(formats, value, now) ==
    {i \in 1..Len(formats) : ResolvedBy(formats[i], value, now) # Nil}

Least(S) == CHOOSE i \in S : \A j \in S : i <= j

\* The instant the input of the last call stands for: that of the first
\* format resolving its text, or the pre-typed non-zero instant; Nil when
\* there is none.  An expression resolves against the clock reading the call
\* made for its input.
InputInstant ==
    IF CallText # Nil /\ CallText # EmptyText
    THEN LET S == Resolving(opts.Format, CallText, call.nowIn)
         IN  IF S = {} THEN Nil
             ELSE ResolvedBy(opts.Format[Least(S)], CallText, call.nowIn)
    ELSE IF call.op = "JSONValue" /\ call.input.kind = "time" /\ ~IsZero(call.input.value)
    THEN call.input.value
    ELSE Nil

\* The acceptance rule of the range validator for a candidate c against a
\* bound b with tolerance T = 250 ms.
MinAccepts(c, b, exclusive) ==
    IF exclusive THEN After(c, AddNs(b, 250000000)) ELSE ~Before(c, AddNs(b, -250000000))

MaxAccepts(c, b, exclusive) ==
    IF exclusive THEN Before(c, AddNs(b, -250000000)) ELSE ~After(c, AddNs(b, 250000000))

\* c is within the literal bounds of the configuration.
WithinLiteralBounds(c) ==
    /\ opts.MinDate # Nil => MinAccepts(c, opts.MinDate.value, opts.MinDate.exclusive)
    /\ opts.MaxDate # Nil => MaxAccepts(c, opts.MaxDate.value, opts.MaxDate.exclusive)

\* C1: a blank input (empty text, JSON null, JSON "", zero instant) decoded
\* into a fresh Time gives, in this order of precedence: nullable -> no error,
\* Present and Null set; required -> ErrBlank, Present left false; discardBlank
\* off -> ErrBlank with Present set; otherwise no error and Present false.  Val
\* stays the zero instant throughout.
C1_BlankPolicy ==
    (IsCall /\ IsBlankCall /\ call.pre = ZeroTime) =>
        /\ t.Val = ZeroInstant
        /\ IF opts.Null THEN call.err = NoErr /\ t.Present /\ t.Null
           ELSE IF opts.Required THEN call.err = ErrBlank /\ ~t.Present
           ELSE IF ~opts.DiscardBlank THEN call.err = ErrBlank /\ t.Present
           ELSE call.err = NoErr /\ ~t.Present

\* C1 witness: a zero instant decoded under nullable and required together.
C1_Witness ==
    /\ IsCall /\ call.op = "JSONValue" /\ call.input.kind = "time" /\ IsBlankCall
    /\ call.pre = ZeroTime /\ opts.Null /\ opts.Required
    /\ call.err = NoErr /\ t.Present /\ t.Null

\* C2: a non-blank input that some format resolves (or a pre-typed non-zero
\* instant), decoded into a fresh Time and passing the range check, returns no
\* error and leaves Present = true, Null = false and Val = the resolved
\* instant, rounded when a RoundSpec is configured.
C2_SuccessfulDecode ==
    (/\ IsCall /\ call.pre = ZeroTime /\ InputInstant # Nil
     /\ WithinLiteralBounds(applyRounding(InputInstant, opts))) =>
        /\ call.err = NoErr
        /\ t.Present /\ ~t.Null
        /\ t.Val = applyRounding(InputInstant, opts)

\* C2 witness: a text rounded up to the next day and accepted.
C2_Witness ==
    /\ IsCall /\ call.op = "FormValue" /\ call.pre = ZeroTime /\ call.err = NoErr
    /\ opts.Round # Nil /\ opts.MinDate # Nil /\ opts.MaxDate # Nil
    /\ InputInstant = Date(2024, 6, 15, 12, 30, 45, 0)
    /\ t.Val = Date(2024, 6, 16, 0, 0, 0, 0) /\ t.Present /\ ~t.Null

\* C4: the formats are tried in declared order and the first that resolves
\* the text decides: Val is its (rounded) instant and the error is that of the
\* range check on it; no later format is tried, also when that check fails.
C4_FirstMatchWins ==
    (IsCall /\ CallText # Nil /\ CallText # EmptyText /\ InputInstant # Nil) =>
        /\ t.Val = applyRounding(InputInstant, opts)
        /\ call.err \in {NoErr, ErrMin, ErrMax}
        /\ call.err = NoErr <=> WithinLiteralBounds(t.Val)

\* C4 witness: 2024-03-04 under the formats year-day-month, year-month-day
\* and a maximum of 15 March: the first format reads 3 April, which is above
\* the maximum; the second would have read 4 March, which is not.
C4_Witness ==
    /\ IsCall /\ CallText = Date3Text(2024, 3, 4)
    /\ Resolving(opts.Format, CallText, call.nowIn) = {1, 2}
    /\ opts.Round = Nil
    /\ t.Val = Date(2024, 4, 3, 0, 0, 0, 0) /\ call.err = ErrMax
    /\ WithinLiteralBounds(ResolvedBy(opts.Format[2], CallText, call.nowIn))

\* C5: with the tolerance T = 250 ms, an inclusive minimum rejects c iff
\* c < b - T, an inclusive maximum rejects c iff c > b + T, an exclusive
\* minimum accepts c iff c > b + T and an exclusive maximum accepts c iff
\* c < b - T, c being the (rounded) candidate and b the bound compared against.
C5_RangeRule ==
    (IsCall /\ InputInstant # Nil) =>
        /\ opts.MinDate # Nil =>
              (call.err = ErrMin <=>
                  ~MinAccepts(t.Val, opts.MinDate.value, opts.MinDate.exclusive))
        /\ (opts.MaxDate # Nil /\ call.err # ErrMin) =>
              (call.err = ErrMax <=>
                  ~MaxAccepts(t.Val, opts.MaxDate.value, opts.MaxDate.exclusive))

\* C5 witness: a candidate equal to an exclusive literal minimum is rejected.
C5_Witness ==
    /\ IsCall /\ InputInstant # Nil
    /\ opts.MinDate # Nil /\ opts.MinDate.exclusive
    /\ t.Val = opts.MinDate.value /\ call.err = ErrMin

\* C7: on every input path (layout, expression, pre-typed instant) the
\* instant is rounded first and the range check is made on the rounded
\* instant: the call succeeds iff the rounded instant is within the bounds.
C7_RoundBeforeRange ==
    (IsCall /\ InputInstant # Nil /\ opts.Round # Nil) =>
        (call.err = NoErr <=> WithinLiteralBounds(applyRounding(InputInstant, opts)))

\* C7 witness: with day:up and the exclusive maximum 2024-12-31T23:59:59Z the
\* pre-typed instant 2024-12-31T23:30:00Z, itself within the bounds, is
\* rejected as above the maximum.
C7_Witness ==
    /\ IsCall /\ call.op = "JSONValue" /\ call.input.kind = "time"
    /\ opts.Round = [unit |-> UnitDay, direction |-> DirectionUp]
    /\ opts.MaxDate # Nil /\ opts.MaxDate.exclusive /\ opts.MaxDate.value = BoundB
    /\ InputInstant = Date(2024, 12, 31, 23, 30, 0, 0)
    /\ WithinLiteralBounds(InputInstant)
    /\ t.Val = Date(2025, 1, 1, 0, 0, 0, 0) /\ call.err = ErrMax

\* The instant a literal bound text stands for under the field's formats.
LiteralOf(raw) ==
    ResolvedBy(opts.Format[Least(Resolving(opts.Format, raw, clock))], raw, clock)

\* C8: a literal bound is rounded with the field's RoundSpec when the
\* configuration is built: every decode compares against round(parse(L)).
C8_LiteralBoundRounded ==
    (IsCall /\ opts.Round # Nil) =>
        /\ call.minB # Nil => call.minB = applyRounding(LiteralOf(opts.MinDate.raw), opts)
        /\ call.maxB # Nil => call.maxB = applyRounding(LiteralOf(opts.MaxDate.raw), opts)

\* C3: a non-blank text that none of the configured formats resolves is
\* refused with ErrTime, and Val, Present and Null are what they were before
\* the call.
C3_InvalidFormat ==
    (/\ IsCall /\ CallText # Nil /\ CallText # EmptyText
     /\ Resolving(opts.Format, CallText, clock) = {}) =>
        /\ call.err = ErrTime
        /\ t = call.pre

\* C3 witness: 2024-02-30 refused by both date layouts, leaving a Time that an
\* earlier decode had filled as that decode left it.
C3_Witness ==
    /\ IsCall /\ CallText = Date3Text(2024, 2, 30) /\ Len(opts.Format) = 2
    /\ call.err = ErrTime
    /\ call.pre.Present /\ call.pre.Val # ZeroInstant /\ t = call.pre

\* C6: the minimum is checked before the maximum and one error is returned: a
\* candidate below the minimum gets ErrMin, also when it is above the maximum
\* as well; ErrMax is returned only when the minimum check passed or there is
\* no minimum.
C6_MinBeforeMax ==
    (IsCall /\ InputInstant # Nil) =>
        /\ (opts.MinDate # Nil /\ call.minB # Nil
            /\ ~MinAccepts(t.Val, call.minB, opts.MinDate.exclusive)) => call.err = ErrMin
        /\ call.err = ErrMax =>
              \/ opts.MinDate = Nil
              \/ call.minB # Nil /\ MinAccepts(t.Val, call.minB, opts.MinDate.exclusive)

\* C6 witness: a minimum of 1_day_from_now lying after a maximum of 1_day_ago,
\* and "now", violating both, refused as below the minimum.
C6_Witness ==
    /\ IsCall /\ CallText = AbsoluteText("now") /\ opts.Round = Nil
    /\ opts.MinDate # Nil /\ opts.MinDate.raw = RelativeText(1, UnitDay, "from_now")
    /\ opts.MaxDate # Nil /\ opts.MaxDate.raw = RelativeText(1, UnitDay, "ago")
    /\ ~MinAccepts(t.Val, call.minB, opts.MinDate.exclusive)
    /\ ~MaxAccepts(t.Val, resolveTimeExpression(opts.MaxDate.raw, clock),
                   opts.MaxDate.exclusive)
    /\ call.err = ErrMin

\* The bound instant an expression stands for at the clock reading now, under
\* the field's RoundSpec.
ExpressionBound(raw, now) == applyRounding(resolveTimeExpression(raw, now), opts)

WithinTolerance(a, b) == ~After(b, AddNs(a, 250000000))

\* C10: without rounding, an input that is the same expression as an
\* exclusive bound, resolved at most 250 ms before that bound, is refused:
\* ErrMin against the exclusive minimum, ErrMax against the exclusive maximum.
C10_ExclusiveExpressionEquality ==
    (IsCall /\ opts.Round = Nil /\ CallText # Nil /\ call.nowIn # Nil) =>
        /\ (/\ opts.MinDate # Nil /\ opts.MinDate.exclusive
            /\ opts.MinDate.raw = CallText
            /\ call.nowMin # Nil /\ WithinTolerance(call.nowIn, call.nowMin))
              => call.err = ErrMin
        /\ (/\ opts.MaxDate # Nil /\ opts.MaxDate.exclusive
            /\ opts.MaxDate.raw = CallText
            /\ call.nowMax # Nil /\ WithinTolerance(call.nowIn, call.nowMax))
              => call.err = ErrMax

\* The last call decoded an expression with no RoundSpec configured and at
\* least one bound, every bound being inclusive and that same expression,
\* and every clock reading made for a bound came at most 250 ms after the
\* reading made for the input.
SameExpressionBounds ==
    /\ IsCall /\ CallText # Nil /\ call.nowIn # Nil
    /\ opts.MinDate # Nil \/ opts.MaxDate # Nil
    /\ opts.MinDate # Nil => ~opts.MinDate.exclusive /\ opts.MinDate.raw = CallText
    /\ opts.MaxDate # Nil => ~opts.MaxDate.exclusive /\ opts.MaxDate.raw = CallText
    /\ call.nowMin # Nil => WithinTolerance(call.nowIn, call.nowMin)
    /\ call.nowMax # Nil => WithinTolerance(call.nowIn, call.nowMax)

\* C11: without rounding, an input that is the same expression as the
\* inclusive minimum and/or the inclusive maximum, each resolved at most
\* 250 ms after the input, passes the range check.
C11_ToleranceNoRounding ==
    (SameExpressionBounds /\ opts.Round = Nil) => call.err = NoErr

\* C12: with a RoundSpec, an input that is the same expression as both the
\* inclusive minimum and the inclusive maximum, each resolved at most 250 ms
\* after the input, passes the range check wherever in the rounding period
\* the clock readings fall.
C12_ToleranceRounded ==
    (SameExpressionBounds /\ opts.Round # Nil /\ opts.MinDate # Nil /\ opts.MaxDate # Nil)
        => call.err = NoErr

\* The last call decoded the instant call.raw and rounded it by unit in the
\* given direction.
Rounded(unit, direction) ==
    /\ IsCall /\ call.err = NoErr /\ call.raw # Nil
    /\ opts.Round = [unit |-> unit, direction |-> direction]

\* The first instant of the period of a standard unit that contains x, from
\* the calendar fields of x.
PeriodStart(x, unit) ==
    CASE unit = UnitYear   -> Inst(DaysFromCivil(Year(x), 1, 1), 0, 0)
      [] unit = UnitMonth  -> Inst(DaysFromCivil(Year(x), Month(x), 1), 0, 0)
      [] unit = UnitDay    -> Inst(x.day, 0, 0)
      [] unit = UnitHour   -> Inst(x.day, x.sec - (x.sec % 3600), 0)
      [] unit = UnitMinute -> Inst(x.day, x.sec - (x.sec % 60), 0)
      [] unit = UnitSecond -> Inst(x.day, x.sec, 0)

\* C13: rounding down by a standard unit gives the first instant of the
\* period containing x: coarser components kept, finer ones reset; the result
\* is never after x, and month:down always yields day 1.
C13_RoundDownStandard ==
    \A u \in StandardUnits :
        Rounded(u, DirectionDown) =>
            /\ t.Val = PeriodStart(call.raw, u)
            /\ ~After(t.Val, call.raw)
            /\ u = UnitMonth => Day(t.Val) = 1

\* C13 witness: the last nanosecond of 31 January rounded down by month.
C13_Witness ==
    /\ Rounded(UnitMonth, DirectionDown)
    /\ call.raw = Date(2024, 1, 31, 23, 59, 59, 999999999)
    /\ t.Val = Date(2024, 1, 1, 0, 0, 0, 0)

\* The first instant of the period of a standard unit that follows the one
\* containing x.
NextPeriodStart(x, unit) ==
    CASE unit = UnitYear   -> Inst(DaysFromCivil(Year(x) + 1, 1, 1), 0, 0)
      [] unit = UnitMonth  -> IF Month(x) = 12
                              THEN Inst(DaysFromCivil(Year(x) + 1, 1, 1), 0, 0)
                              ELSE Inst(DaysFromCivil(Year(x), Month(x) + 1, 1), 0, 0)
      [] unit = UnitDay    -> Inst(x.day + 1, 0, 0)
      [] unit = UnitHour   -> Normalize(x.day, x.sec - (x.sec % 3600) + 3600, 0)
      [] unit = UnitMinute -> Normalize(x.day, x.sec - (x.sec % 60) + 60, 0)
      [] unit = UnitSecond -> Normalize(x.day, x.sec + 1, 0)

\* C14: rounding up by a standard unit leaves an instant that is exactly at a
\* boundary of the unit where it is, as rounding down does; any other instant
\* goes to the first instant of the next period, with calendar carry.
C14_RoundUpStandard ==
    \A u \in StandardUnits :
        /\ Rounded(u, DirectionUp) =>
              IF call.raw = PeriodStart(call.raw, u) THEN t.Val = call.raw
              ELSE t.Val = NextPeriodStart(call.raw, u)
        /\ (Rounded(u, DirectionDown) /\ call.raw = PeriodStart(call.raw, u)) =>
              t.Val = call.raw

\* C14 witness: the last nanosecond of 31 January rounded up by month.
C14_Witness ==
    /\ Rounded(UnitMonth, DirectionUp)
    /\ call.raw = Date(2024, 1, 31, 23, 59, 59, 999999999)
    /\ t.Val = Date(2024, 2, 1, 0, 0, 0, 0)

\* C15: rounding is idempotent for every unit: rounding the result of a
\* round-down down again, or of a round-up up again, by the same unit changes
\* nothing.
C15_Idempotent ==
    (IsCall /\ call.err = NoErr /\ call.raw # Nil /\ opts.Round # Nil) =>
        /\ opts.Round.direction = DirectionDown =>
              roundDown(t.Val, opts.Round.unit) = t.Val
        /\ opts.Round.direction = DirectionUp =>
              roundUp(t.Val, opts.Round.unit) = t.Val

\* Midnight of the Monday on or before the calendar day of x (day 0 of the
\* instants, 0001-01-01, is a Monday).
MondayOf(x) == Inst(x.day - (x.day % 7), 0, 0)

\* C16: week:down gives midnight of the most recent Monday on or before the
\* day of x; week:up gives that Monday plus seven days, except that a Monday
\* midnight is left where it is.
C16_WeekAnchoredToMonday ==
    /\ Rounded(UnitWeek, DirectionDown) => t.Val = MondayOf(call.raw)
    /\ Rounded(UnitWeek, DirectionUp) =>
          t.Val = IF call.raw = MondayOf(call.raw) THEN call.raw
                  ELSE Inst(MondayOf(call.raw).day + 7, 0, 0)

\* Midnight of the most recent day of the week n (Sunday = 0) on or before
\* the calendar day of x.
MostRecent(x, n) == Inst(x.day - ((x.day + 1 - n) % 7), 0, 0)

\* The last call decoded an instant under the RoundSpec that the unit token w
\* with the direction d configures.
RoundedAs(w, d) ==
    /\ IsCall /\ call.err = NoErr /\ call.raw # Nil
    /\ opts.Round # Nil /\ opts.Round = parseRoundConfig(<<w, d>>)

\* C17: for a weekday name or abbreviation W, W:down gives midnight of the
\* most recent W on or before the day of x; W:up gives x when x is exactly
\* that midnight and otherwise seven days after it; the result is a W at
\* 00:00:00.
C17_NamedWeekday ==
    \A w \in DOMAIN dayNameToWeekday :
        LET n    == dayNameToWeekday[w]
            down == MostRecent(call.raw, n)
        IN  /\ RoundedAs(w, DirectionDown) => t.Val = down
            /\ RoundedAs(w, DirectionUp) =>
                  t.Val = IF call.raw = down THEN call.raw ELSE Inst(down.day + 7, 0, 0)
            /\ (RoundedAs(w, DirectionDown) \/ RoundedAs(w, DirectionUp)) =>
                  (t.Val.day + 1) % 7 = n /\ t.Val.sec = 0 /\ t.Val.nsec = 0

\* C17 witness: wednesday:up, configured by the abbreviation as well, from
\* Wednesday 2024-01-17T14:30:45Z.
C17_Witness ==
    /\ RoundedAs("wed", DirectionUp) /\ RoundedAs("wednesday", DirectionUp)
    /\ call.raw = Date(2024, 1, 17, 14, 30, 45, 0)
    /\ t.Val = Date(2024, 1, 24, 0, 0, 0, 0)

\* C18: rounding to the nearest boundary of any unit gives, with d the
\* round-down and p the round-up of x: d when d = p; otherwise d when x is at
\* or before the midpoint d + (p - d) / 2 and p when x is after it.  So noon
\* goes to the midnight before it under day:nearest and the half hour to the
\* hour before it under hour:nearest.
C18_RoundNearest ==
    (IsCall /\ call.err = NoErr /\ call.raw # Nil /\ opts.Round # Nil
     /\ opts.Round.direction = DirectionNearest) =>
        LET x == call.raw
            u == opts.Round.unit
            d == roundDown(x, u)
            p == roundUp(x, u)
        IN  /\ t.Val \in {d, p}
            /\ t.Val = IF d = p THEN d
                       ELSE IF ~After(x, Midpoint(d, p)) THEN d ELSE p
            /\ u = UnitDay =>
                  t.Val = IF x.sec < 43200 \/ (x.sec = 43200 /\ x.nsec = 0)
                          THEN Inst(x.day, 0, 0) ELSE Inst(x.day + 1, 0, 0)
            /\ u = UnitHour =>
                  t.Val = IF x.sec % 3600 < 1800 \/ (x.sec % 3600 = 1800 /\ x.nsec = 0)
                          THEN Inst(x.day, x.sec - (x.sec % 3600), 0)
                          ELSE Normalize(x.day, x.sec - (x.sec % 3600) + 3600, 0)

\* C18 witness: noon under day:nearest goes down to the same day's midnight.
C18_Witness ==
    /\ Rounded(UnitDay, DirectionNearest)
    /\ call.raw = Date(2024, 1, 15, 12, 0, 0, 0)
    /\ t.Val = Date(2024, 1, 15, 0, 0, 0, 0)

\* The unit tokens parseRoundConfig recognises: standard units and weekday
\* names.
RecognizedUnits == validUnits \cup DOMAIN dayNameToWeekday

\* The declaration whose only tag is meta_round with the parts r.
RoundOnly(r) == Tag("", "", "", <<>>, NoTag, NoTag, r)

\* C19: a round option whose unit is neither a standard unit nor a weekday
\* name builds a configuration with no RoundSpec, whatever its direction
\* part, and every decode under a configuration without RoundSpec returns
\* the parsed instant unchanged and no error.
C19_UnknownUnitDisablesRounding ==
    /\ [][\A r \in RoundTagsAll :
              (r[1] \notin RecognizedUnits /\ Configure(RoundOnly(r)))
                  => (opts' # Nil /\ opts'.Round = Nil)]_vars
    /\ []((IsCall /\ call.raw # Nil /\ opts.Round = Nil)
              => (call.err = NoErr /\ t.Val = call.raw /\ t.Present /\ ~t.Null))

\* C19 witness: 2024-01-15T14:30:45Z decoded unchanged under a configuration
\* without RoundSpec.
C19_Witness ==
    /\ IsCall /\ call.err = NoErr
    /\ opts.Round = Nil
    /\ call.raw = Date(2024, 1, 15, 14, 30, 45, 0)
    /\ t.Val = Date(2024, 1, 15, 14, 30, 45, 0)

\* C20: for every recognised unit u the round option "u" builds the same
\* configuration as "u:down", and a decode under it gives the round-down of
\* the parsed instant by u.
C20_DefaultDirectionDown ==
    /\ [][\A u \in RecognizedUnits :
              Configure(RoundOnly(<<u>>))
                  => opts' = ParseOptions(RoundOnly(<<u, DirectionDown>>), clock)]_vars
    /\ [](\A u \in RecognizedUnits :
              (IsCall /\ call.err = NoErr /\ call.raw # Nil
               /\ opts.Round = parseRoundConfig(<<u>>))
                  => t.Val = roundDown(call.raw, parseRoundConfig(<<u, DirectionDown>>).unit))

\* C20 witness: under the configuration "hour" builds, 14:30:45 decodes to
\* 14:00:00.
C20_Witness ==
    /\ IsCall /\ call.err = NoErr
    /\ opts.Round = parseRoundConfig(<<UnitHour>>)
    /\ call.raw = Date(2024, 1, 15, 14, 30, 45, 0)
    /\ t.Val = Date(2024, 1, 15, 14, 0, 0, 0)

\* The last call decoded a relative expression that resolved.
RelativeCall ==
    /\ IsCall /\ call.raw # Nil /\ call.nowIn # Nil
    /\ CallText # Nil /\ CallText.shape = "relative"

\* The day number of the d-th day counted from the first of the month that
\* is months after (before, when negative) month mo of year y: a day past
\* the end of that month runs into the next.
DayInMonthAfter(y, mo, d, months) ==
    LET total == y * 12 + (mo - 1) + months
    IN  DaysFromCivil(total \div 12, (total % 12) + 1, 1) + d - 1

\* now minus (ago) or plus (from_now) n units: calendar units move the date
\* and keep the time of day, the others add a fixed number of seconds or
\* nanoseconds.
Shifted(now, n, unit, dir) ==
    LET k == IF dir = "ago" THEN -n ELSE n
        c == CivilFromDays(now.day)
    IN  CASE unit = UnitYear   ->
                Inst(DayInMonthAfter(c.year, c.month, c.day, 12 * k), now.sec, now.nsec)
          [] unit = UnitMonth  ->
                Inst(DayInMonthAfter(c.year, c.month, c.day, k), now.sec, now.nsec)
          [] unit = UnitWeek   -> Inst(now.day + 7 * k, now.sec, now.nsec)
          [] unit = UnitDay    -> Inst(now.day + k, now.sec, now.nsec)
          [] unit = UnitHour   -> Normalize(now.day, now.sec + 3600 * k, now.nsec)
          [] unit = UnitMinute -> Normalize(now.day, now.sec + 60 * k, now.nsec)
          [] unit = UnitSecond -> Normalize(now.day, now.sec + k, now.nsec)
          [] unit = "nanosecond" -> Normalize(now.day, now.sec, now.nsec + k)

\* x lies between a and b, whichever of the two is the earlier.
Between(x, a, b) ==
    \/ ~Before(x, a) /\ ~After(x, b)
    \/ ~Before(x, b) /\ ~After(x, a)

\* The result of the last call lies between the expression applied to the
\* clock as it read before the call and to the clock as it reads now.
Sandwiched(before) ==
    Between(t.Val, Shifted(before, CallText.n, CallText.unit, CallText.dir),
                   Shifted(clock, CallText.n, CallText.unit, CallText.dir))

\* The units whose addition keeps the order of two instants.
OrderKeepingUnits == ExprUnits \ {UnitYear, UnitMonth}

C22_DataInvariant ==
    /\ t.Null => t.Present
    /\ ~t.Present => t.Val = ZeroInstant

\* C25: MarshalJSON emits the timestamp of Val exactly when Present is true
\* and Null is false and the JSON null literal in every other case; Value
\* returns the instant in exactly the cases where MarshalJSON emits a
\* timestamp and nil otherwise; neither returns an error.
C25_SerializationMirrorsPresence ==
    /\ call.op = "MarshalJSON" =>
          /\ call.err = NoErr
          /\ call.out = IF t.Present /\ ~t.Null
                        THEN [json |-> "string", text |-> TextOf(t.Val)]
                        ELSE [json |-> "null"]
    /\ call.op = "Value" =>
          /\ call.err = NoErr
          /\ call.out = IF t.Present /\ ~t.Null THEN t.Val ELSE Nil
          /\ (call.out # Nil) <=> (MarshalJSON(t).bytes.json = "string")

\* C25 witness: a value that is present and null is serialized as null.
C25_Witness ==
    /\ call.op = "MarshalJSON"
    /\ t.Present /\ t.Null
    /\ call.out = [json |-> "null"]

\* What the last call gives when it is made on a zero Time with the same
\* input, configuration and clock reading.
OnZeroTime ==
    LET c == IF call.nowIn # Nil THEN call.nowIn ELSE clock
    IN  IF call.op = "FormValue"
        THEN FormValue(ZeroTime, call.input, opts, c, <<0, 0, 0>>)
        ELSE JSONValue(ZeroTime, call.input, opts, c, <<0, 0, 0>>)

\* C23: a decode returns the same error and leaves the same Val, Present
\* and Null whatever the target Time held before the call: what it leaves
\* in a Time an earlier decode wrote is what it leaves in a zero Time.
C23_PureOfTarget ==
    (IsCall /\ call.op \in {"FormValue", "JSONValue"}) =>
        /\ call.err = OnZeroTime.err
        /\ t.Val = OnZeroTime.t.Val
        /\ t.Present = OnZeroTime.t.Present
        /\ t.Null = OnZeroTime.t.Null

\* The first instant of the period of unit that contains x, weeks beginning
\* on Monday.
StartOf(x, unit) == IF unit = UnitWeek THEN MondayOf(x) ELSE PeriodStart(x, unit)

\* The last nanosecond of the period of unit that contains x.
EndOf(x, unit) ==
    IF unit = UnitWeek THEN AddNs(Inst(MondayOf(x).day + 7, 0, 0), -1)
    ELSE AddNs(NextPeriodStart(x, unit), -1)

\* C26: with no meta_round, <n>_<unit>_ago decodes to the start of the unit
\* period containing now minus n units and <n>_<unit>_from_now to the last
\* nanosecond of the unit period containing now plus n units; nanosecond
\* expressions and "now" are not rounded.
C26_AutomaticRounding ==
    /\ (RelativeCall /\ opts.Round = Nil) =>
          LET x == Shifted(call.nowIn, CallText.n, CallText.unit, CallText.dir)
          IN  t.Val = IF CallText.unit = "nanosecond" THEN x
                      ELSE IF CallText.dir = "ago" THEN StartOf(x, CallText.unit)
                      ELSE EndOf(x, CallText.unit)
    /\ (IsCall /\ call.raw # Nil /\ CallText = AbsoluteText("now") /\ opts.Round = Nil) =>
          t.Val = call.nowIn

ParsingLayouts(body, formatTag) ==
    {i \in 1..Len(parseFormats(formatTag)) :
        /\ parseFormats(formatTag)[i] # "expression"
        /\ ParseLayout(parseFormats(formatTag)[i], body) # Nil}

\* What a bound option can be used as: an expression of the vocabulary, a
\* literal one of the field's formats parses, or nothing.
UsableAs(body, formatTag) ==
    IF body.shape \in {"relative", "absolute"} THEN "expression"
    ELSE IF ParsingLayouts(body, formatTag) # {} THEN "literal"
    ELSE "none"

\* The instant of a literal bound option.
LiteralInstant(body, formatTag) ==
    ParseLayout(parseFormats(formatTag)[Least(ParsingLayouts(body, formatTag))], body)

\* The instant the minimum of a declaration stands for while its
\* configuration is built at the clock reading now; Nil when it has none.
MinAtBuild(tag, now) ==
    IF tag.min = NoTag THEN Nil
    ELSE CASE UsableAs(tag.min.body, tag.format) = "expression" ->
                 resolveTimeExpression(tag.min.body, now)
           [] UsableAs(tag.min.body, tag.format) = "literal" ->
                 LiteralInstant(tag.min.body, tag.format)
           [] OTHER -> Nil

\* C28: while the configuration is built, a literal maximum is checked
\* against the minimum already built: when it is more than 250 ms before an
\* inclusive minimum, or not more than 250 ms after an exclusive one, the
\* configuration has no maximum (and no error is reported), otherwise the
\* maximum is the literal; the literal minimum is kept whatever the maximum;
\* and no decode under a configuration without maximum returns ErrMax.
C28_MaxCheckedAgainstMin ==
    /\ [][\A tag \in BoundOptionTags :
              Configure(tag) =>
                  /\ opts' # Nil
                  /\ (tag.max # NoTag /\ UsableAs(tag.max.body, tag.format) = "literal") =>
                        IF /\ MinAtBuild(tag, clock) # Nil
                           /\ ~MinAccepts(LiteralInstant(tag.max.body, tag.format),
                                          MinAtBuild(tag, clock), tag.min.bang)
                        THEN opts'.MaxDate = Nil
                        ELSE /\ opts'.MaxDate # Nil
                             /\ opts'.MaxDate.isAbsolute
                             /\ opts'.MaxDate.value = LiteralInstant(tag.max.body, tag.format)
                  /\ (tag.min # NoTag /\ UsableAs(tag.min.body, tag.format) = "literal") =>
                        /\ opts'.MinDate # Nil
                        /\ opts'.MinDate.isAbsolute
                        /\ opts'.MinDate.value = LiteralInstant(tag.min.body, tag.format)]_vars
    /\ []((IsCall /\ opts.MaxDate = Nil) => call.err # ErrMax)

\* C28 witness: a configuration with the inclusive minimum 2024-01-01 and no
\* maximum, under which 2025-06-01 is accepted.
C28_Witness ==
    /\ IsCall /\ call.err = NoErr
    /\ opts.MinDate # Nil /\ opts.MinDate.isAbsolute /\ opts.MinDate.value = BoundA
    /\ opts.MaxDate = Nil
    /\ t.Val = Date(2025, 6, 1, 0, 0, 0, 0)

\* C29: a non-empty minimum or maximum option that, after its leading "!",
\* is neither an expression nor parsed by any of the field's formats gives
\* the configuration the declaration has without that option, and no error;
\* an option that is an expression becomes an expression bound, resolved at
\* every decode, also when "expression" is not among the formats.
C29_UnusableBoundDropped ==
    /\ [][\A tag \in BoundOptionTags :
              Configure(tag) =>
                  /\ (tag.min # NoTag /\ UsableAs(tag.min.body, tag.format) = "none") =>
                        opts' = ParseOptions([tag EXCEPT !.min = NoTag], clock)
                  /\ (tag.max # NoTag /\ UsableAs(tag.max.body, tag.format) = "none") =>
                        opts' = ParseOptions([tag EXCEPT !.max = NoTag], clock)
                  /\ (tag.min # NoTag /\ UsableAs(tag.min.body, tag.format) = "expression") =>
                        opts'.MinDate = [value |-> ZeroInstant, isAbsolute |-> FALSE,
                                         exclusive |-> tag.min.bang, raw |-> tag.min.body]
                  /\ (tag.max # NoTag /\ UsableAs(tag.max.body, tag.format) = "expression") =>
                        opts'.MaxDate = [value |-> ZeroInstant, isAbsolute |-> FALSE,
                                         exclusive |-> tag.max.bang, raw |-> tag.max.body]]_vars
    /\ [](IsCall =>
              /\ opts.MinDate = Nil => call.err # ErrMin
              /\ opts.MaxDate = Nil => call.err # ErrMax
              /\ (call.minB # Nil /\ ~opts.MinDate.isAbsolute) =>
                    call.minB = resolveTimeExpression(opts.MinDate.raw, call.nowMin)
              /\ (call.maxB # Nil /\ ~opts.MaxDate.isAbsolute) =>
                    call.maxB = resolveTimeExpression(opts.MaxDate.raw, call.nowMax))

\* C29 witness: under a format list without "expression" the minimum
\* "today" is an expression bound, and refuses an instant of the year before.
C29_Witness ==
    /\ IsCall /\ call.err = ErrMin
    /\ opts.Format = <<RFC3339>>
    /\ opts.MinDate # Nil /\ ~opts.MinDate.isAbsolute
    /\ opts.MinDate.raw = AbsoluteText("today")
    /\ call.minB = Date(2024, 12, 31, 0, 0, 0, 0)
    /\ t.Val = Date(2023, 6, 1, 0, 0, 0, 0)

\* A decode of a relative expression whose count is written in digits.
DigitsCall == IsCall /\ CallText # Nil /\ "digits" \in DOMAIN CallText

\* C30: for every count the relative pattern and strconv.Atoi accept and
\* every duration unit (hour, minute, second, nanosecond),
\* <n>_<unit>_ago resolves to an instant not after the instant time.Now()
\* returned and <n>_<unit>_from_now to an instant not before it, also when n
\* times the unit's length is outside the range of a Duration; a count
\* strconv.Atoi refuses resolves to nothing and the decode fails with ErrTime.
C30_DirectionKept ==
    (DigitsCall /\ CallText.unit \in DOMAIN timeUnitDurationFactors) =>
        IF Atoi(CallText.digits) = Nil
        THEN call.raw = Nil /\ call.err = ErrTime /\ ~t.Present
        ELSE /\ call.raw # Nil /\ t.Val = call.raw /\ t.Present
             /\ CallText.dir = "ago" => ~After(t.Val, call.nowIn)
             /\ CallText.dir = "from_now" => ~Before(t.Val, call.nowIn)

\* What the call of decoder p gives when it runs alone on a zero Time with
\* the clock readings it made.
Alone(p) ==
    IF call[p].op = "FormValue"
    THEN FormValue(ZeroTime, call[p].input, opts, call[p].c, call[p].k)
    ELSE JSONValue(ZeroTime, call[p].input, opts, call[p].c, call[p].k)

\* C24: decodes that share one configuration do not interfere: no step of a
\* decode (FormValue or JSONValue, rounding and the resolution of
\* expression bounds included) changes the shared TimeOptions or its
\* bounds, and for two decodes into distinct Times interleaved in any order
\* each finished call's error and Time are those the call gives when run
\* alone with the same clock readings.
C24_NoInterference ==
    /\ [][opts # Nil => opts' = opts]_vars
    /\ [](\A p \in Decoders :
              call[p].pc = "done" =>
                  /\ t[p] = Alone(p).t
                  /\ call[p].err = Alone(p).err)

\* C24 witness: with an expression minimum and maximum, decoder 1 began at
\* ClockStart and made its last read 250 ms later, decoder 2 began 100 ms
\* after ClockStart, and the two finished with different errors.
C24_Witness ==
    /\ opts # Nil
    /\ ReadsClock(opts.MinDate) /\ ReadsClock(opts.MaxDate)
    /\ call[1].pc = "done" /\ call[2].pc = "done"
    /\ call[1].c = ClockStart /\ call[1].k = <<0, 100000000, 150000000>>
    /\ call[2].c = AddNs(ClockStart, 100000000)
    /\ call[1].err = NoErr /\ call[2].err = ErrMin
    /\ t[1].Present /\ t[2].Present

====
